---- MODULE Spec2Model ----
(***************************************************************************)
(* Model of the Omeka S contributor linker                                 *)
(* (src/add_contributors_to_itemset.py) and of the write paths of the      *)
(* sibling scripts.  The remote Omeka S instance is the environment: its   *)
(* paginated item listing (pages), its items (store) and the outcome of    *)
(* every request.                                                          *)
(***************************************************************************)
EXTENDS Integers, Sequences, FiniteSets, TLC

(***************************************************************************)
(* Bounds of the model.                                                    *)
(***************************************************************************)
\* number of non-empty pages the source listing may have
MaxPages == 2
\* number of requests (page, GET item, PUT item) that may fail over the runs
MaxFailures == 1
\* number of contributor types of CONTRIBUTOR_TYPES that are modelled
MaxTypes == 2

(***************************************************************************)
(* Plain values.                                                           *)
(***************************************************************************)
\* Python's None where an integer is expected
NoneVal == -1

\* a falsy value_resource_id: None or 0 (`... and value_resource_id`)
Truthy(v) == v # NoneVal /\ v # 0

\* the 'property' column of CONTRIBUTOR_TYPES, keys '1'..'7' in sorted order
CONTRIBUTOR_TYPES ==
    << "rcl:artist", "rcl:author", "rcl:composer", "rcl:editor",
       "rcl:essayAuthor", "rcl:photographer", "rcl:translator" >>

Props == SubSeq(CONTRIBUTOR_TYPES, 1, MaxTypes)

PropSet == { Props[i] : i \in 1..Len(Props) }

\* the menu choices: "all" is choice '8', a number is one contributor type
Choices == {"all"} \cup { Props[i] : i \in 1..Len(Props) }

\* item sets a user may name as target
Collections == {5, 6}

\* an item set that is never a target
OtherSet == 9

\* the item set given as the source
SourceSet == 3

\* the items that relationship values refer to
TargetIds == {77, 78}

(***************************************************************************)
(* Source items: the values of the contributor properties.                 *)
(***************************************************************************)
Ref(id) == [isDict |-> TRUE, type |-> "resource:item", value_resource_id |-> id]

Lit(id) == [isDict |-> TRUE, type |-> "literal", value_resource_id |-> id]

NoRef == [isDict |-> TRUE, type |-> "resource:item", value_resource_id |-> NoneVal]

ZeroRef == [isDict |-> TRUE, type |-> "resource:item", value_resource_id |-> 0]

Str == [isDict |-> FALSE, type |-> "", value_resource_id |-> NoneVal]

Absent == [present |-> FALSE, isList |-> FALSE, entries |-> << >>]

NonList == [present |-> TRUE, isList |-> FALSE, entries |-> << >>]

List(es) == [present |-> TRUE, isList |-> TRUE, entries |-> es]

\* an item with the given rcl:artist and rcl:author values and no other
\* contributor property
Item(artist, author) ==
    [p \in { CONTRIBUTOR_TYPES[i] : i \in 1..Len(CONTRIBUTOR_TYPES) } |->
        IF p = "rcl:artist" THEN artist
        ELSE IF p = "rcl:author" THEN author
        ELSE Absent]

ItA == Item(List(<<Ref(77)>>), Absent)

ItB == Item(List(<<Str, Lit(77), NoRef, Ref(78)>>), List(<<Ref(77)>>))

ItC == Item(NonList, List(<<ZeroRef, Ref(78), Ref(78)>>))

ItD == Item(Absent, Absent)

\* the pages the listing is made of
PageShapes == { <<ItA, ItB>>, <<ItC, ItD, ItA>> }

\* the listings of the source: up to MaxPages non-empty pages
Datasets == UNION { [1..n -> PageShapes] : n \in 0..MaxPages }

(***************************************************************************)
(* Item bodies of the remote store.                                        *)
(***************************************************************************)
\* fields_to_remove of add_items_to_itemset
fields_to_remove ==
    { "@context", "@id", "@type", "o:id", "o:owner", "o:created",
      "o:modified", "thumbnail_display_urls", "o:primary_media", "o:media",
      "o:site", "@reverse" }

\* the keys of a complete Omeka S item, o:item_set apart
FullKeys ==
    fields_to_remove \cup
    { "o:resource_class", "o:resource_template", "o:title", "dcterms:title" }

MinKeys == { "o:id", "o:title" }

\* an entry of o:item_set; has_oid is FALSE for an entry without 'o:id'
SetEntry(c) == [has_oid |-> TRUE, oid |-> c]

NoOidEntry == [has_oid |-> FALSE, oid |-> NoneVal]

\* o:item_set of a body: the key is absent, its value is null, or a list
ISAbsent == [kind |-> "absent", entries |-> << >>]

ISNull == [kind |-> "null", entries |-> << >>]

ISList(es) == [kind |-> "list", entries |-> es]

Body(keys, id, is) == [props |-> [k \in keys |-> id], item_set |-> is]

Bodies77 ==
    { Body(FullKeys, 77, ISList(<< >>)),
      Body(FullKeys, 77, ISList(<<SetEntry(OtherSet), SetEntry(5)>>)),
      Body(MinKeys, 77, ISAbsent),
      Body(FullKeys, 77, ISNull),
      Body(MinKeys, 77, ISList(<<SetEntry(5), NoOidEntry>>)) }

Bodies78 ==
    { Body(FullKeys, 78, ISList(<< >>)),
      Body(MinKeys, 78, ISList(<<SetEntry(6)>>)) }

Stores == { [id \in TargetIds |-> IF id = 77 THEN b77 ELSE b78] :
            b77 \in Bodies77, b78 \in Bodies78 }

NoBody == [props |-> [k \in {} |-> 0], item_set |-> ISAbsent]

NoPayload == [props |-> [k \in {} |-> 0], item_set |-> << >>]

VARIABLES
    pc,                      \* position of the program
    run,                     \* 1 or 2: which execution of the program
    choice,                  \* the menu choice
    source_itemset_id,       \* the source item set, NoneVal for the instance
    property_names,          \* keys of property_to_target_map, in order
    property_to_target_map,  \* the target item set entered for each type
    probed,                  \* number of targets verified so far
    pages,                   \* env: the source listing
    store,                   \* env: the items of the instance
    failures,                \* env: failed requests so far
    page,                    \* get_items_generator: page
    items,                   \* the page last yielded
    processed_contributors,
    stats,
    page_contributors,
    cur,                     \* index in property_names of the running batch
    item_ids,                \* ids of the batch not yet iterated
    item_id,                 \* id whose PUT is pending
    item_data,               \* the fetched dict of item_id
    update_data,             \* the PUT payload of item_id
    success_count,
    error_count,
    already_in_set,
    streamEnd,               \* how the generator ended: none, empty, error
    pageLog,                 \* history: page numbers requested in this run
    dispatched,              \* history: GETs started per property and id
    outcome,                 \* history: result per property and id
    calls,                   \* history: item GETs and PUTs issued in this run
    ev,                      \* history: the last request and its result
    prev,                    \* history: how the previous run ended
    all_items,               \* sibling scripts: the items accumulated so far
    failed_count,
    skipped_count,
    total_count,
    silent,                  \* sibling scripts: no prompt before processing
    confirm,                 \* sibling scripts: the answer to the prompt
    log                      \* history: requests of a sibling script, answers

vars ==
    << pc, run, choice, source_itemset_id, property_names,
       property_to_target_map, probed, pages,
       store, failures, page, items, processed_contributors, stats,
       page_contributors, cur, item_ids, item_id, item_data, update_data,
       success_count, error_count, already_in_set, streamEnd, pageLog,
       dispatched, outcome, calls, ev, prev, all_items, failed_count,
       skipped_count, total_count, silent, confirm, log >>

(***************************************************************************)
(* process_contributors_streaming: extraction of one page.                 *)
(***************************************************************************)
ZeroStats == [found |-> 0, added |-> 0, skipped |-> 0, errors |-> 0]

NameSet(names) == { names[i] : i \in 1..Len(names) }

\* the check of line 161 left out: every reference counts as new
NotSeenUnchecked(id, seen) == TRUE

\* line 161: the contributor was not seen before under this property
NotSeen(id, seen) == id \notin seen

\* the new id is queued and counted but not recorded in the seen-set
ExtractEntryNotRecorded(st, p, e) ==
    IF /\ e.isDict
       /\ e.type = "resource:item"
       /\ Truthy(e.value_resource_id)
       /\ NotSeen(e.value_resource_id, st.seen[p])
    THEN [pcs   |-> [st.pcs EXCEPT ![p] = @ \cup {e.value_resource_id}],
          seen  |-> st.seen,
          stats |-> [st.stats EXCEPT ![p].found = @ + 1]]
    ELSE st

\* lines 155-164: one entry of a property value; st is the triple
\* (page_contributors, processed_contributors, stats)
ExtractEntry(st, p, e) ==
    IF /\ e.isDict
       /\ e.type = "resource:item"
       /\ Truthy(e.value_resource_id)
       /\ NotSeen(e.value_resource_id, st.seen[p])
    THEN [pcs   |-> [st.pcs EXCEPT ![p] = @ \cup {e.value_resource_id}],
          seen  |-> [st.seen EXCEPT ![p] = @ \cup {e.value_resource_id}],
          stats |-> [st.stats EXCEPT ![p].found = @ + 1]]
    ELSE st

RECURSIVE ExtractEntriesStopAtBad(_, _, _)
\* the first entry that is not a valid reference ends the loop over the list
ExtractEntriesStopAtBad(st, p, es) ==
    IF es = << >> THEN st
    ELSE IF ~( /\ Head(es).isDict
               /\ Head(es).type = "resource:item"
               /\ Truthy(Head(es).value_resource_id) )
    THEN st
    ELSE ExtractEntriesStopAtBad(ExtractEntry(st, p, Head(es)), p, Tail(es))

RECURSIVE ExtractEntries(_, _, _)
\* line 154: for contributor in contributors
ExtractEntries(st, p, es) ==
    IF es = << >> THEN st
    ELSE ExtractEntries(ExtractEntry(st, p, Head(es)), p, Tail(es))

\* a value that is not a list is counted as an error of the property
ExtractPropertyNonListError(st, item, p) ==
    IF item[p].present /\ item[p].isList
    THEN ExtractEntries(st, p, item[p].entries)
    ELSE IF item[p].present
    THEN [st EXCEPT !.stats[p].errors = @ + 1]
    ELSE st

\* lines 150-154: the property is on the item and its value is a list
ExtractProperty(st, item, p) ==
    IF item[p].present /\ item[p].isList
    THEN ExtractEntries(st, p, item[p].entries)
    ELSE st

RECURSIVE ExtractItem(_, _, _)
\* line 149: for property_name in property_names
ExtractItem(st, item, names) ==
    IF names = << >> THEN st
    ELSE ExtractItem(ExtractProperty(st, item, Head(names)), item, Tail(names))

RECURSIVE ExtractPage(_, _, _)
\* line 148: for item in items
ExtractPage(st, its, names) ==
    IF its = << >> THEN st
    ELSE ExtractPage(ExtractItem(st, Head(its), names), Tail(its), names)

\* only the batch of the first property is run
NextBatchFirstOnly(j, names, pcs) ==
    IF j = 1 /\ names # << >> /\ pcs[names[1]] # {} THEN 1 ELSE 0

RECURSIVE NextBatch(_, _, _)
\* lines 168-169: the next property, from index j on, with new contributors
NextBatch(j, names, pcs) ==
    IF j > Len(names) THEN 0
    ELSE IF pcs[names[j]] # {} THEN j
    ELSE NextBatch(j + 1, names, pcs)

\* add_artists_to_itemset.py, lines 169-176: one entry of an rcl:artist list
ArtistEntry(artist_ids, artist) ==
    IF /\ artist.isDict
       /\ artist.type = "resource:item"
       /\ Truthy(artist.value_resource_id)
    THEN artist_ids \cup {artist.value_resource_id}
    ELSE artist_ids

RECURSIVE ArtistEntries(_, _)
\* add_artists_to_itemset.py, line 164: for artist_idx, artist in enumerate(artists)
ArtistEntries(artist_ids, artists) ==
    IF artists = << >> THEN artist_ids
    ELSE ArtistEntries(ArtistEntry(artist_ids, Head(artists)), Tail(artists))

RECURSIVE ExtractArtists(_, _)
\* add_artists_to_itemset.py, lines 145-183: for idx, item in enumerate(items)
ExtractArtists(artist_ids, its) ==
    IF its = << >> THEN artist_ids
    ELSE ExtractArtists(
            IF Head(its)["rcl:artist"].present /\ Head(its)["rcl:artist"].isList
            THEN ArtistEntries(artist_ids, Head(its)["rcl:artist"].entries)
            ELSE artist_ids,
            Tail(its))

\* add_artists_to_itemset.py, lines 139 and 193: artist_ids = set() ... return
extract_artist_items(its) == ExtractArtists({}, its)

(***************************************************************************)
(* add_items_to_itemset: the pure parts.                                   *)
(***************************************************************************)
\* the fetched membership list is not read
CurrentItemsetsNotRead(body) == << >>

\* line 240: item_data.get('o:item_set', [])
CurrentItemsets(body) ==
    IF body.item_set.kind = "absent" THEN << >> ELSE body.item_set.entries

\* line 241 raises TypeError on null and KeyError on an entry without 'o:id';
\* neither is a RequestException
Raises(body) ==
    \/ body.item_set.kind = "null"
    \/ \E i \in 1..Len(body.item_set.entries) : ~body.item_set.entries[i].has_oid

\* the last entry of the membership list is not read
ItemsetIdsWithoutLast(es) == [i \in 1..(Len(es) - 1) |-> es[i].oid]

\* line 241: [s['o:id'] for s in current_itemsets]
ItemsetIds(es) == [i \in 1..Len(es) |-> es[i].oid]

\* the membership test never finds the item set
InItemsetNever(c, ids) == FALSE

\* line 246: itemset_id in itemset_ids
InItemset(c, ids) == \E i \in 1..Len(ids) : ids[i] = c

\* the list is replaced by the new entry alone
AppendItemSetAlone(es, c) == <<SetEntry(c)>>

\* lines 255-259: the new entry is appended to the fetched list
AppendItemSet(es, c) == Append(es, SetEntry(c))

\* line 268: item_data['o:item_set'] = current_itemsets
WithItemSet(body, es) == [props |-> body.props, item_set |-> ISList(es)]

\* the payload is built without the title of the item
UpdateDataWithoutTitle(data) ==
    [props    |-> [k \in (DOMAIN data.props) \ (fields_to_remove \cup {"o:title"})
                     |-> data.props[k]],
     item_set |-> data.item_set.entries]

\* line 276: the payload keeps every key that is not in fields_to_remove
UpdateData(data) ==
    [props    |-> [k \in (DOMAIN data.props) \ fields_to_remove |-> data.props[k]],
     item_set |-> data.item_set.entries]

(***************************************************************************)
(* The payloads of the other write paths, from the same fetched dict.      *)
(***************************************************************************)
\* add_artists_to_itemset.py, lines 254-256: fields_to_remove
fields_to_remove_artists ==
    { "@context", "@id", "@type", "o:id", "o:owner", "o:created",
      "o:modified", "thumbnail_display_urls", "o:primary_media", "o:media",
      "o:site", "@reverse" }

\* SaveItemUnchanged.py, line 124: read_only_fields
read_only_fields_save ==
    { "o:id", "o:created", "o:modified", "o:owner", "o:resource_class",
      "o:resource_template" }

\* dereferenceMedia.py, lines 351-364: read_only_fields
read_only_fields_deref ==
    { "o:id", "o:created", "o:modified", "o:owner", "o:resource_class",
      "o:resource_template", "o:primary_media", "o:thumbnail_display_urls",
      "thumbnail_display_urls", "@context", "@id", "@type" }

\* a dict without the given keys
Without(props, keys) == [k \in (DOMAIN props) \ keys |-> props[k]]

\* add_artists_to_itemset.py, line 258: update_data
UpdateDataArtists(data) == Without(data.props, fields_to_remove_artists)

\* SaveItemUnchanged.py, lines 123-126: update_data of update_item
UpdateItemSave(data) == Without(data.props, read_only_fields_save)

\* dereferenceMedia.py, lines 350-366: update_data of update_item
UpdateItemDeref(data) == Without(data.props, read_only_fields_deref)

\* copy_item_name_dev_to_prod.py, lines 82-93: prod_item is sent with its
\* title replaced and no key removed
TitleSyncPayload(data) == data.props

\* lines 285-289, the server's side of the PUT: a full replace of the item by
\* the payload; the read-only and computed fields keep their values
ApplyPut(body, payload) ==
    [props |->
        [k \in (DOMAIN payload.props) \cup ((DOMAIN body.props) \cap fields_to_remove) |->
            IF k \in DOMAIN payload.props THEN payload.props[k] ELSE body.props[k]],
     item_set |-> ISList(payload.item_set)]

\* the ids already in the item set are counted as added too
BatchStatsAddedWithSkipped(succ, err, already) ==
    [added |-> succ, skipped |-> already, errors |-> err]

\* the error count is left out of the returned dictionary
BatchStatsNoErrors(succ, err, already) ==
    [added |-> succ - already, skipped |-> already, errors |-> 0]

\* lines 321-325: the dictionary add_items_to_itemset returns
BatchStats(succ, err, already) ==
    [added |-> succ - already, skipped |-> already, errors |-> err]

\* lines 175-177: the batch statistics are added to the property's
AddBatchStats(s, b) ==
    [s EXCEPT !.added = @ + b.added, !.skipped = @ + b.skipped,
              !.errors = @ + b.errors]

(***************************************************************************)
(* Initial state: main() after the menu, before the targets are verified.  *)
(***************************************************************************)
\* get_source_choice, lines 367-391: None for the entire instance or the id
\* of an item set
Sources == {NoneVal, SourceSet}

NoEvent == [op |-> "none", arg |-> 0, ok |-> TRUE]

NoCalls == [get |-> 0, put |-> 0]

NoRun == [pc |-> "none", end |-> "none", errors |-> FALSE]

NamesOf(ch) == IF ch = "all" THEN Props ELSE <<ch>>

\* SaveItemUnchanged.py, dereferenceMedia.py and copy_item_name_dev_to_prod.py
\* are other programs: while the linker runs, nothing of them exists
SiblingsIdle ==
    /\ all_items = << >>
    /\ failed_count = 0
    /\ skipped_count = 0
    /\ total_count = 0
    /\ silent = FALSE
    /\ confirm = ""
    /\ log = << >>

Init ==
    /\ SiblingsIdle
    /\ pc = "source"
    /\ run = 1
    /\ choice \in Choices
    /\ source_itemset_id \in Sources
    /\ property_names = NamesOf(choice)
    /\ property_to_target_map \in [NameSet(property_names) -> Collections]
    /\ probed = 0
    /\ pages \in Datasets
    /\ store \in Stores
    /\ failures = 0
    /\ page = 1
    /\ items = << >>
    /\ processed_contributors = [p \in NameSet(property_names) |-> {}]
    /\ stats = [p \in NameSet(property_names) |-> ZeroStats]
    /\ page_contributors = [p \in NameSet(property_names) |-> {}]
    /\ cur = 0
    /\ item_ids = {}
    /\ item_id = 0
    /\ item_data = NoBody
    /\ update_data = NoPayload
    /\ success_count = 0
    /\ error_count = 0
    /\ already_in_set = 0
    /\ streamEnd = "none"
    /\ pageLog = << >>
    /\ dispatched = [p \in NameSet(property_names) |-> [t \in TargetIds |-> 0]]
    /\ outcome = [p \in NameSet(property_names) |-> [t \in TargetIds |-> "none"]]
    /\ calls = NoCalls
    /\ ev = NoEvent
    /\ prev = NoRun

(***************************************************************************)
(* Steps of the program.                                                   *)
(***************************************************************************)
inputs == << choice, source_itemset_id, property_names,
            property_to_target_map, pages >>

siblings == << all_items, failed_count, skipped_count, total_count, silent,
              confirm, log >>

locals == << item_id, item_data, update_data >>

counters == << success_count, error_count, already_in_set >>

history == << pageLog, dispatched, outcome, calls >>

Event(op, arg, ok) == [op |-> op, arg |-> arg, ok |-> ok]

\* main, lines 498-514, and process_contributor_type, lines 427-437: streaming
\* starts after the last target was verified
AfterVerified(n, names) == IF n = Len(names) THEN "page" ELSE "probe"

\* the result of the verification is ignored and streaming starts
AfterNotVerifiedIgnored(ch) == "page"

\* main, lines 506-508: sys.exit(1) in the "all" branch;
\* process_contributor_type, lines 427-429: zero statistics are returned
AfterNotVerified(ch) == IF ch = "all" THEN "exit" ELSE "done"

\* the generator goes on after the error and requests the page again
OnPageErrorRetry == "page"

\* get_items_generator, lines 99-101: break
OnPageError == "done"

\* the generator skips the empty page and goes on requesting
OnEmptyPageContinue == "page"

\* get_items_generator, lines 90-93: if not page_items: break
OnEmptyPage == "done"

\* the missing source is ignored and the targets are verified
AfterSourceNotVerifiedIgnored == "probe"

\* main, lines 481-483: sys.exit(1)
AfterSourceNotVerified == "exit"

\* main, line 478: no source item set was given, nothing is verified
SourceNone ==
    /\ pc = "source"
    /\ source_itemset_id = NoneVal
    /\ pc' = "probe"
    /\ UNCHANGED << run, inputs, siblings, probed, store, failures, page, items,
                    processed_contributors, stats, page_contributors, cur,
                    item_ids, locals, counters, streamEnd, history, ev, prev >>

\* main, lines 478-484: the source item set exists
VerifySourceOk ==
    /\ pc = "source"
    /\ source_itemset_id # NoneVal
    /\ pc' = "probe"
    /\ ev' = Event("source", source_itemset_id, TRUE)
    /\ UNCHANGED << run, inputs, siblings, probed, store, failures, page, items,
                    processed_contributors, stats, page_contributors, cur,
                    item_ids, locals, counters, streamEnd, history, prev >>

\* main, lines 481-483: verify_itemset_exists returns False for the source
VerifySourceFail ==
    /\ pc = "source"
    /\ source_itemset_id # NoneVal
    /\ pc' = AfterSourceNotVerified
    /\ ev' = Event("source", source_itemset_id, FALSE)
    /\ UNCHANGED << run, inputs, siblings, probed, store, failures, page, items,
                    processed_contributors, stats, page_contributors, cur,
                    item_ids, locals, counters, streamEnd, history, prev >>

\* main, lines 505-508, and process_contributor_type, line 427: the target of
\* the next contributor type exists; after the last one streaming starts
VerifyTargetOk ==
    /\ pc = "probe"
    /\ probed' = probed + 1
    /\ pc' = AfterVerified(probed + 1, property_names)
    /\ ev' = Event("probe", property_to_target_map[property_names[probed + 1]], TRUE)
    /\ UNCHANGED << run, inputs, siblings, store, failures, page, items,
                    processed_contributors, stats, page_contributors, cur,
                    item_ids, locals, counters, streamEnd, history, prev >>

\* verify_itemset_exists returns False: sys.exit(1) in the "all" branch
\* (line 508), zero statistics from process_contributor_type (line 429)
VerifyTargetFail ==
    /\ pc = "probe"
    /\ pc' = AfterNotVerified(choice)
    /\ ev' = Event("probe", property_to_target_map[property_names[probed + 1]], FALSE)
    /\ UNCHANGED << run, inputs, siblings, probed, store, failures, page, items,
                    processed_contributors, stats, page_contributors, cur,
                    item_ids, locals, counters, streamEnd, history, prev >>

\* lines 166-179: run the batches of the page from property index `from` on;
\* when none is left the generator resumes (page += 1, line 97)
EnterBatches(from, pcs) ==
    LET j == NextBatch(from, property_names, pcs) IN
    /\ cur' = j
    /\ item_ids' = IF j = 0 THEN {} ELSE pcs[property_names[j]]
    /\ pc' = IF j = 0 THEN "page" ELSE "batch"
    /\ page' = IF j = 0 THEN page + 1 ELSE page
    /\ success_count' = 0
    /\ error_count' = 0
    /\ already_in_set' = 0

\* the end of one iteration of the loop of add_items_to_itemset (line 213):
\* the counters move by (ds, de, da); after the last id the batch returns
\* and its statistics are added to the property's (lines 174-177)
FinishItem(id, ds, de, da) ==
    LET rest == item_ids \ {id}
        p    == property_names[cur]
    IN  IF rest # {}
        THEN /\ item_ids' = rest
             /\ success_count' = success_count + ds
             /\ error_count' = error_count + de
             /\ already_in_set' = already_in_set + da
             /\ pc' = "batch"
             /\ UNCHANGED << cur, page, stats >>
        ELSE /\ stats' = [stats EXCEPT ![p] =
                    AddBatchStats(@, BatchStats(success_count + ds,
                                                error_count + de,
                                                already_in_set + da))]
             /\ EnterBatches(cur + 1, page_contributors)

\* get_items_generator, lines 86-87 and 99-101: the request of the page
\* raises a RequestException; the generator ends and the statistics are
\* returned
PageFail ==
    /\ pc = "page"
    /\ failures < MaxFailures
    /\ failures' = failures + 1
    /\ pageLog' = Append(pageLog, page)
    /\ ev' = Event("page", page, FALSE)
    /\ streamEnd' = "error"
    /\ pc' = OnPageError
    /\ UNCHANGED << run, inputs, siblings, probed, store, page, items,
                    processed_contributors, stats, page_contributors, cur,
                    item_ids, locals, counters, dispatched, outcome, calls,
                    prev >>

\* lines 90-93: the page is empty
PageEmpty ==
    /\ pc = "page"
    /\ page > Len(pages)
    /\ pageLog' = Append(pageLog, page)
    /\ ev' = Event("page", page, TRUE)
    /\ streamEnd' = "empty"
    /\ pc' = OnEmptyPage
    /\ UNCHANGED << run, inputs, siblings, probed, store, failures, page, items,
                    processed_contributors, stats, page_contributors, cur,
                    item_ids, locals, counters, dispatched, outcome, calls,
                    prev >>

\* lines 95-96 and 141-164: the page is yielded and its contributors are
\* extracted
PageRetrieved ==
    /\ pc = "page"
    /\ page <= Len(pages)
    /\ pageLog' = Append(pageLog, page)
    /\ ev' = Event("page", page, TRUE)
    /\ items' = pages[page]
    /\ LET st == ExtractPage(
                    [pcs   |-> [p \in NameSet(property_names) |-> {}],
                     seen  |-> processed_contributors,
                     stats |-> stats],
                    pages[page], property_names)
       IN  /\ page_contributors' = st.pcs
           /\ processed_contributors' = st.seen
           /\ stats' = st.stats
           /\ EnterBatches(1, st.pcs)
    /\ UNCHANGED << run, inputs, siblings, probed, store, failures, locals, streamEnd,
                    dispatched, outcome, calls, prev >>

\* every batch is sent to the target of the first property
target_itemset_id_first == property_to_target_map[property_names[1]]

\* line 170: target_itemset_id = property_to_target_map[property_name]
target_itemset_id == property_to_target_map[property_names[cur]]

\* the history of one GET of item id under the running property
NoteGet(id, ok, result) ==
    LET p == property_names[cur] IN
    /\ dispatched' = [dispatched EXCEPT ![p][id] = @ + 1]
    /\ calls' = [calls EXCEPT !.get = @ + 1]
    /\ ev' = Event("get", id, ok)
    /\ outcome' = IF result = "none" THEN outcome
                  ELSE [outcome EXCEPT ![p][id] = result]

\* lines 227-232 and 307-313: the GET of the item raises a RequestException
GetFail(id) ==
    /\ pc = "batch"
    /\ id \in item_ids
    /\ failures < MaxFailures
    /\ failures' = failures + 1
    /\ NoteGet(id, FALSE, "error")
    /\ FinishItem(id, 0, 1, 0)
    /\ UNCHANGED << run, inputs, siblings, probed, store, items, processed_contributors,
                    page_contributors, locals, streamEnd, pageLog, prev >>

\* lines 240-241: the fetched o:item_set is null or has an entry without
\* 'o:id'; the TypeError or KeyError is not caught and leaves the program
GetRaises(id) ==
    /\ pc = "batch"
    /\ id \in item_ids
    /\ Raises(store[id])
    /\ NoteGet(id, TRUE, "none")
    /\ pc' = "crashed"
    /\ UNCHANGED << run, inputs, siblings, probed, store, failures, page, items,
                    processed_contributors, stats, page_contributors, cur,
                    item_ids, locals, counters, streamEnd, pageLog, prev >>

\* lines 246-251: the item is already in the target item set
GetPresent(id) ==
    /\ pc = "batch"
    /\ id \in item_ids
    /\ ~Raises(store[id])
    /\ InItemset(target_itemset_id, ItemsetIds(CurrentItemsets(store[id])))
    /\ NoteGet(id, TRUE, "skipped")
    /\ FinishItem(id, 1, 0, 1)
    /\ UNCHANGED << run, inputs, siblings, probed, store, failures, items,
                    processed_contributors, page_contributors, locals,
                    streamEnd, pageLog, prev >>

\* lines 253-283: the item is not in the target item set; the payload is built
GetAbsent(id) ==
    /\ pc = "batch"
    /\ id \in item_ids
    /\ ~Raises(store[id])
    /\ ~InItemset(target_itemset_id, ItemsetIds(CurrentItemsets(store[id])))
    /\ NoteGet(id, TRUE, "none")
    /\ item_id' = id
    /\ item_data' = WithItemSet(store[id],
                        AppendItemSet(CurrentItemsets(store[id]),
                                      target_itemset_id))
    /\ update_data' = UpdateData(item_data')
    /\ pc' = "put"
    /\ UNCHANGED << run, inputs, siblings, probed, store, failures, page, items,
                    processed_contributors, stats, page_contributors, cur,
                    item_ids, counters, streamEnd, pageLog, prev >>

\* the history of the PUT of item_id
NotePut(ok) ==
    /\ calls' = [calls EXCEPT !.put = @ + 1]
    /\ ev' = Event("put", item_id, ok)
    /\ outcome' = [outcome EXCEPT ![property_names[cur]][item_id] =
                        IF ok THEN "added" ELSE "error"]
    /\ item_id' = 0
    /\ item_data' = NoBody
    /\ update_data' = NoPayload

\* lines 285-305: the PUT succeeds
PutOk ==
    /\ pc = "put"
    /\ store' = [store EXCEPT ![item_id] = ApplyPut(@, update_data)]
    /\ NotePut(TRUE)
    /\ FinishItem(item_id, 1, 0, 0)
    /\ UNCHANGED << run, inputs, siblings, probed, failures, items,
                    processed_contributors, page_contributors, streamEnd,
                    pageLog, dispatched, prev >>

\* lines 301 and 307-313: the PUT raises a RequestException
PutFail ==
    /\ pc = "put"
    /\ failures < MaxFailures
    /\ failures' = failures + 1
    /\ NotePut(FALSE)
    /\ FinishItem(item_id, 0, 1, 0)
    /\ UNCHANGED << run, inputs, siblings, probed, store, items,
                    processed_contributors, page_contributors, streamEnd,
                    pageLog, dispatched, prev >>

\* the program is started again with the same answers, against the same
\* instance
Rerun ==
    /\ pc \in {"done", "exit", "crashed"}
    /\ run = 1
    /\ run' = 2
    /\ prev' = [pc     |-> pc,
                 end    |-> streamEnd,
                 errors |-> \E p \in NameSet(property_names) : stats[p].errors # 0]
    /\ pc' = "source"
    /\ probed' = 0
    /\ page' = 1
    /\ items' = << >>
    /\ processed_contributors' = [p \in NameSet(property_names) |-> {}]
    /\ stats' = [p \in NameSet(property_names) |-> ZeroStats]
    /\ page_contributors' = [p \in NameSet(property_names) |-> {}]
    /\ cur' = 0
    /\ item_ids' = {}
    /\ item_id' = 0
    /\ item_data' = NoBody
    /\ update_data' = NoPayload
    /\ success_count' = 0
    /\ error_count' = 0
    /\ already_in_set' = 0
    /\ streamEnd' = "none"
    /\ pageLog' = << >>
    /\ dispatched' = [p \in NameSet(property_names) |-> [t \in TargetIds |-> 0]]
    /\ outcome' = [p \in NameSet(property_names) |-> [t \in TargetIds |-> "none"]]
    /\ calls' = NoCalls
    /\ ev' = NoEvent
    /\ UNCHANGED << inputs, siblings, store, failures >>

GetItem == \E id \in TargetIds : GetFail(id) \/ GetRaises(id) \/ GetPresent(id) \/ GetAbsent(id)

Next ==
    \/ SourceNone
    \/ VerifySourceOk
    \/ VerifySourceFail
    \/ VerifyTargetOk
    \/ VerifyTargetFail
    \/ PageFail
    \/ PageEmpty
    \/ PageRetrieved
    \/ GetItem
    \/ PutOk
    \/ PutFail
    \/ Rerun

\* the steps of one run of the program: main, lines 442-559
RunStep ==
    \/ SourceNone
    \/ VerifySourceOk
    \/ VerifySourceFail
    \/ VerifyTargetOk
    \/ VerifyTargetFail
    \/ PageFail
    \/ PageEmpty
    \/ PageRetrieved
    \/ GetItem
    \/ PutOk
    \/ PutFail

\* the program is one thread that takes its next step as long as it has one
FairSpec == Init /\ [][Next]_vars /\ WF_vars(RunStep)

Spec == Init /\ [][Next]_vars

(***************************************************************************)
(* add_artists_to_itemset.py, the batch script: the source and the target  *)
(* are verified, all pages are retrieved, the artists are extracted from   *)
(* all items and then added to the target.  The field is rcl:artist.       *)
(***************************************************************************)
\* main, lines 323-334 and 367-378: both item sets are given; nothing was
\* requested yet
ArtistsInit ==
    /\ Init
    /\ choice = "rcl:artist"
    /\ source_itemset_id = SourceSet

\* main, lines 374-378: the target item set exists; retrieval starts
ArtistsVerifyTargetOk ==
    /\ pc = "probe"
    /\ probed' = probed + 1
    /\ pc' = "page"
    /\ ev' = Event("probe", property_to_target_map["rcl:artist"], TRUE)
    /\ UNCHANGED << run, inputs, siblings, store, failures, page, items,
                    processed_contributors, stats, page_contributors, cur,
                    item_ids, locals, counters, streamEnd, history, prev >>

\* main, lines 375-377: the target item set does not exist, sys.exit(1)
ArtistsVerifyTargetFail ==
    /\ pc = "probe"
    /\ pc' = "exit"
    /\ ev' = Event("probe", property_to_target_map["rcl:artist"], FALSE)
    /\ UNCHANGED << run, inputs, siblings, probed, store, failures, page, items,
                    processed_contributors, stats, page_contributors, cur,
                    item_ids, locals, counters, streamEnd, history, prev >>

\* the artists are added although pages are still to be retrieved
ArtistsAfterPageWritesAtOnce(its) ==
    IF extract_artist_items(its) = {} THEN "page" ELSE "batch"

\* get_items_from_itemset, lines 117-119: after a page the loop goes on
ArtistsAfterPage(its) == "page"

\* get_items_from_itemset, lines 105-119: the page has items, which are
\* appended to the list
ArtistsPageRetrieved ==
    /\ pc = "page"
    /\ page <= Len(pages)
    /\ pageLog' = Append(pageLog, page)
    /\ ev' = Event("page", page, TRUE)
    /\ items' = items \o pages[page]
    /\ page' = page + 1
    /\ pc' = ArtistsAfterPage(items')
    /\ item_ids' = IF pc' = "batch" THEN extract_artist_items(items') ELSE {}
    /\ cur' = IF pc' = "batch" THEN 1 ELSE 0
    /\ UNCHANGED << run, inputs, siblings, probed, store, failures,
                    processed_contributors, stats, page_contributors, locals,
                    counters, streamEnd, dispatched, outcome, calls, prev >>

\* main, lines 382-399, after get_items_from_itemset has returned: nothing to
\* do without items or without artists, otherwise add_items_to_itemset is
\* called with all the artists
ArtistsRetrievalEnded(end) ==
    /\ streamEnd' = end
    /\ pageLog' = Append(pageLog, page)
    /\ page_contributors' =
          [page_contributors EXCEPT !["rcl:artist"] = extract_artist_items(items)]
    /\ item_ids' = extract_artist_items(items)
    /\ cur' = IF extract_artist_items(items) = {} THEN 0 ELSE 1
    /\ pc' = IF extract_artist_items(items) = {} THEN "done" ELSE "batch"
    /\ UNCHANGED << run, inputs, siblings, probed, store, page, items,
                    processed_contributors, stats, locals, counters,
                    dispatched, outcome, calls, prev >>

\* get_items_from_itemset, lines 113-115: the page is empty, break
ArtistsPageEmpty ==
    /\ pc = "page"
    /\ page > Len(pages)
    /\ ev' = Event("page", page, TRUE)
    /\ ArtistsRetrievalEnded("empty")
    /\ UNCHANGED failures

\* get_items_from_itemset, lines 121-124: the request raises a
\* RequestException, break; the items retrieved so far are returned
ArtistsPageFail ==
    /\ pc = "page"
    /\ failures < MaxFailures
    /\ failures' = failures + 1
    /\ ev' = Event("page", page, FALSE)
    /\ ArtistsRetrievalEnded("error")

\* add_artists_to_itemset.py, add_items_to_itemset, line 209: the end of one
\* iteration of the loop; after the last id the summary is printed and main
\* ends (lines 292-296 and 399)
ArtistsFinishItem(id, ds, de, da) ==
    /\ item_ids' = item_ids \ {id}
    /\ success_count' = success_count + ds
    /\ error_count' = error_count + de
    /\ already_in_set' = already_in_set + da
    /\ pc' = IF item_ids \ {id} = {} THEN "done" ELSE "batch"
    /\ UNCHANGED << cur, page, stats >>

\* add_artists_to_itemset.py, lines 214-218 and 285-290: the GET of the item
\* raises a RequestException
ArtistsGetFail(id) ==
    /\ pc = "batch"
    /\ id \in item_ids
    /\ failures < MaxFailures
    /\ failures' = failures + 1
    /\ NoteGet(id, FALSE, "error")
    /\ ArtistsFinishItem(id, 0, 1, 0)
    /\ UNCHANGED << run, inputs, siblings, probed, store, items, processed_contributors,
                    page_contributors, locals, streamEnd, pageLog, prev >>

\* add_artists_to_itemset.py, lines 225-234: the item is already in the
\* target item set
ArtistsGetPresent(id) ==
    /\ pc = "batch"
    /\ id \in item_ids
    /\ ~Raises(store[id])
    /\ InItemset(target_itemset_id, ItemsetIds(CurrentItemsets(store[id])))
    /\ NoteGet(id, TRUE, "skipped")
    /\ ArtistsFinishItem(id, 1, 0, 1)
    /\ UNCHANGED << run, inputs, siblings, probed, store, failures, items,
                    processed_contributors, page_contributors, locals,
                    streamEnd, pageLog, prev >>

\* add_artists_to_itemset.py, lines 266-283: the PUT succeeds
ArtistsPutOk ==
    /\ pc = "put"
    /\ store' = [store EXCEPT ![item_id] = ApplyPut(@, update_data)]
    /\ NotePut(TRUE)
    /\ ArtistsFinishItem(item_id, 1, 0, 0)
    /\ UNCHANGED << run, inputs, siblings, probed, failures, items,
                    processed_contributors, page_contributors, streamEnd,
                    pageLog, dispatched, prev >>

\* add_artists_to_itemset.py, lines 280 and 285-290: the PUT raises a
\* RequestException
ArtistsPutFail ==
    /\ pc = "put"
    /\ failures < MaxFailures
    /\ failures' = failures + 1
    /\ NotePut(FALSE)
    /\ ArtistsFinishItem(item_id, 0, 1, 0)
    /\ UNCHANGED << run, inputs, siblings, probed, store, items,
                    processed_contributors, page_contributors, streamEnd,
                    pageLog, dispatched, prev >>

\* add_artists_to_itemset.py, lines 209-234: the GET of one of the artists;
\* the null list and the entry without 'o:id' raise at line 226 as in the
\* streaming script, and the payload is built with the same twelve keys
ArtistsGetItem ==
    \E id \in TargetIds :
        \/ ArtistsGetFail(id)
        \/ GetRaises(id)
        \/ ArtistsGetPresent(id)
        \/ GetAbsent(id)

ArtistsNext ==
    \/ VerifySourceOk
    \/ VerifySourceFail
    \/ ArtistsVerifyTargetOk
    \/ ArtistsVerifyTargetFail
    \/ ArtistsPageRetrieved
    \/ ArtistsPageEmpty
    \/ ArtistsPageFail
    \/ ArtistsGetItem
    \/ ArtistsPutOk
    \/ ArtistsPutFail

BatchSpec == ArtistsInit /\ [][ArtistsNext]_vars

(***************************************************************************)
(* The sibling scripts.  Each is a program of its own that runs against    *)
(* the listing of an item set (pages) and answers chosen by the instance.  *)
(***************************************************************************)
\* an item of a listing: its 'o:id' and the shape of its 'rcl:image'
ListedItem(id, image) == [id |-> id, image |-> image]

\* the answers of the instance to a request; "raised" is a
\* requests.exceptions.RequestException instead of a response
Ok == "200"

NotOk == {"404", "500", "raised"}

\* a request of a sibling script and its answer
Request(op, inst, arg, status) ==
    [op |-> op, inst |-> inst, arg |-> arg, status |-> status]

\* the variables of the linker, which the sibling scripts do not have
linker ==
    << run, choice, source_itemset_id, property_names, property_to_target_map,
       probed, store, processed_contributors, stats, page_contributors, cur,
       item_ids, item_id, item_data, update_data, error_count,
       already_in_set, streamEnd, pageLog, dispatched, outcome, calls, ev,
       prev >>

LinkerIdle ==
    /\ run = 1
    /\ choice = "all"
    /\ source_itemset_id = SourceSet
    /\ property_names = << >>
    /\ property_to_target_map = << >>
    /\ probed = 0
    /\ store = [id \in TargetIds |-> NoBody]
    /\ processed_contributors = << >>
    /\ stats = << >>
    /\ page_contributors = << >>
    /\ cur = 0
    /\ item_ids = {}
    /\ item_id = 0
    /\ item_data = NoBody
    /\ update_data = NoPayload
    /\ error_count = 0
    /\ already_in_set = 0
    /\ streamEnd = "none"
    /\ pageLog = << >>
    /\ dispatched = << >>
    /\ outcome = << >>
    /\ calls = NoCalls
    /\ ev = NoEvent
    /\ prev = NoRun

(***************************************************************************)
(* SaveItemUnchanged.py, OmekaSClient.process_item_set: all items of an    *)
(* item set are retrieved and each is saved back unchanged.                *)
(***************************************************************************)
SavePageShapes ==
    { << ListedItem(1, "absent"), ListedItem(2, "absent") >>,
      << ListedItem(3, "absent") >> }

SaveListings == UNION { [1..n -> SavePageShapes] : n \in 0..MaxPages }

\* process_item_set is entered; silent is its argument
SaveInit ==
    /\ LinkerIdle
    /\ pc = "fetch"
    /\ pages \in SaveListings
    /\ failures = 0
    /\ page = 1
    /\ items = << >>
    /\ all_items = << >>
    /\ success_count = 0
    /\ failed_count = 0
    /\ skipped_count = 0
    /\ total_count = 0
    /\ silent \in BOOLEAN
    /\ confirm = ""
    /\ log = << >>

\* what get_item_set_items returns: None or a list
NoList == [none |-> TRUE, list |-> << >>]

AList(l) == [none |-> FALSE, list |-> l]

\* the pages retrieved before the failed request are returned
SaveOnPageErrorKeepsPages(all) == AList(all)

\* get_item_set_items, lines 95-100 and 104-106: return None
SaveOnPageError(all) == NoList

\* process_item_set, lines 153-172: what follows the return of
\* get_item_set_items(its); None and the empty list return zero counts, a
\* silent call goes on without prompt
SaveAfterFetch(its) ==
    IF its.none \/ its.list = << >> THEN "done"
    ELSE IF silent THEN "loop"
    ELSE "confirm"

\* get_item_set_items, lines 87-94: status 200 and items on the page
SavePageRetrieved ==
    /\ pc = "fetch"
    /\ page <= Len(pages)
    /\ all_items' = all_items \o pages[page]
    /\ page' = page + 1
    /\ log' = Append(log, Request("page", "instance", page, Ok))
    /\ UNCHANGED << linker, pc, pages, failures, items, success_count,
                    failed_count, skipped_count, total_count, silent, confirm >>

\* get_item_set_items, lines 89-92 and 102: status 200 and an empty page ends
\* the loop, all_items is returned to process_item_set
SavePageEmpty ==
    /\ pc = "fetch"
    /\ page > Len(pages)
    /\ items' = all_items
    /\ log' = Append(log, Request("page", "instance", page, Ok))
    /\ pc' = SaveAfterFetch(AList(all_items))
    /\ confirm' = IF pc' = "loop" THEN "y" ELSE confirm
    /\ UNCHANGED << linker, pages, failures, page, all_items, success_count,
                    failed_count, skipped_count, total_count, silent >>

\* get_item_set_items, lines 95-100 and 104-106: another status or a
\* RequestException
SavePageFail ==
    /\ pc = "fetch"
    /\ failures < MaxFailures
    /\ failures' = failures + 1
    /\ \E status \in NotOk :
          log' = Append(log, Request("page", "instance", page, status))
    /\ items' = SaveOnPageError(all_items).list
    /\ all_items' = << >>
    /\ pc' = SaveAfterFetch(SaveOnPageError(all_items))
    /\ confirm' = IF pc' = "loop" THEN "y" ELSE confirm
    /\ UNCHANGED << linker, pages, page, success_count, failed_count,
                    skipped_count, total_count, silent >>

\* process_item_set, lines 164-170: the prompt
SaveConfirm ==
    /\ pc = "confirm"
    /\ \E answer \in {"y", "yes", "n"} :
          /\ confirm' = answer
          /\ pc' = IF answer \in {"y", "yes"} THEN "loop" ELSE "done"
    /\ UNCHANGED << linker, pages, failures, page, items, all_items,
                    success_count, failed_count, skipped_count, total_count,
                    silent, log >>

\* process_item_set, lines 177-186, one iteration: update_item (lines
\* 119-139) sends one PUT and tells whether the status was 200; items holds
\* the items not yet iterated
SaveUpdateItem(status) ==
    /\ pc = "loop"
    /\ log' = Append(log, Request("put", "instance", Head(items).id, status))
    /\ success_count' = IF status = Ok THEN success_count + 1 ELSE success_count
    /\ failed_count' = IF status = Ok THEN failed_count ELSE failed_count + 1
    /\ items' = Tail(items)
    /\ pc' = IF Tail(items) = << >> THEN "done" ELSE "loop"
    /\ UNCHANGED << linker, pages, page, all_items, skipped_count,
                    total_count, silent, confirm >>

SaveUpdateOk == SaveUpdateItem(Ok) /\ UNCHANGED failures

SaveUpdateFail ==
    /\ failures < MaxFailures
    /\ failures' = failures + 1
    /\ \E status \in NotOk : SaveUpdateItem(status)

SaveNext ==
    \/ SavePageRetrieved
    \/ SavePageEmpty
    \/ SavePageFail
    \/ SaveConfirm
    \/ SaveUpdateOk
    \/ SaveUpdateFail

SaveSpec == SaveInit /\ [][SaveNext]_vars

(***************************************************************************)
(* dereferenceMedia.py, OmekaSClient.process_items over the generator      *)
(* get_item_set_items: the media of the item that 'rcl:image' refers to is *)
(* recreated on every item of the listing.                                 *)
(***************************************************************************)
\* the item that the 'rcl:image' of a listed item refers to
ReferencedId == 77

\* 'rcl:image' is absent, an empty list, a value without value_resource_id
\* or a reference
MediaPageShapes ==
    { << ListedItem(1, "ref"), ListedItem(2, "absent") >>,
      << ListedItem(3, "noid"), ListedItem(4, "empty") >> }

MediaListings == UNION { [1..n -> MediaPageShapes] : n \in 0..MaxPages }

\* process_items, line 423
HasImage(item) == item.image \notin {"absent", "empty"}

\* process_items is entered with the generator, which has not run yet
MediaInit ==
    /\ LinkerIdle
    /\ pc = "next"
    /\ pages \in MediaListings
    /\ failures = 0
    /\ page = 1
    /\ items = << >>
    /\ all_items = << >>
    /\ success_count = 0
    /\ failed_count = 0
    /\ skipped_count = 0
    /\ total_count = 0
    /\ silent \in BOOLEAN
    /\ confirm = ""
    /\ log = << >>

\* the answer to the prompt is ignored
MediaAfterAnswerAlwaysProcess(answer) == "item"

\* process_items, lines 410-414: any answer but y or yes returns
MediaAfterAnswer(answer) == IF answer \in {"y", "yes"} THEN "item" ELSE "done"

\* get_item_set_items, lines 312-315: the generator requests the next page
\* and gets items; items holds the items of the page not yet yielded
MediaPageRetrieved ==
    /\ pc = "next"
    /\ items = << >>
    /\ page <= Len(pages)
    /\ items' = pages[page]
    /\ log' = Append(log, Request("page", "instance", page, Ok))
    /\ UNCHANGED << linker, pc, pages, failures, page, all_items,
                    success_count, failed_count, skipped_count, total_count,
                    silent, confirm >>

\* get_item_set_items, lines 316-317, and process_items, lines 436-441: the
\* page is empty, the generator and the loop end
MediaPageEmpty ==
    /\ pc = "next"
    /\ items = << >>
    /\ page > Len(pages)
    /\ log' = Append(log, Request("page", "instance", page, Ok))
    /\ pc' = "done"
    /\ UNCHANGED << linker, pages, failures, page, items, all_items,
                    success_count, failed_count, skipped_count, total_count,
                    silent, confirm >>

\* get_item_set_items, lines 321-333: another status or a RequestException
\* ends the generator; process_items returns the counts so far
MediaPageFail ==
    /\ pc = "next"
    /\ items = << >>
    /\ failures < MaxFailures
    /\ failures' = failures + 1
    /\ \E status \in NotOk :
          log' = Append(log, Request("page", "instance", page, status))
    /\ pc' = "done"
    /\ UNCHANGED << linker, pages, page, items, all_items, success_count,
                    failed_count, skipped_count, total_count, silent,
                    confirm >>

\* process_items, lines 402-406: the generator yields the next item of the
\* page; the first item of a call that is not silent leads to the prompt
MediaYield ==
    /\ pc = "next"
    /\ items # << >>
    /\ total_count' = total_count + 1
    /\ pc' = IF total_count' = 1 /\ ~silent THEN "confirm" ELSE "item"
    /\ UNCHANGED << linker, pages, failures, page, items, all_items,
                    success_count, failed_count, skipped_count, silent,
                    confirm, log >>

\* process_items, lines 409-414: the prompt
MediaConfirm ==
    /\ pc = "confirm"
    /\ \E answer \in {"y", "yes", "n"} :
          /\ confirm' = answer
          /\ pc' = MediaAfterAnswer(answer)
    /\ UNCHANGED << linker, pages, failures, page, items, all_items,
                    success_count, failed_count, skipped_count, total_count,
                    silent, log >>

\* process_items, lines 426-434, and get_item_set_items, lines 318-320: the
\* item is counted and the generator is resumed; page is raised after the
\* last item of the page
MediaItemDone(ds, df, dk) ==
    /\ success_count' = success_count + ds
    /\ failed_count' = failed_count + df
    /\ skipped_count' = skipped_count + dk
    /\ items' = Tail(items)
    /\ page' = IF Tail(items) = << >> THEN page + 1 ELSE page
    /\ pc' = "next"
    /\ UNCHANGED << linker, pages, all_items, total_count, silent, confirm >>

\* process_items, lines 423-427: no rcl:image, skipped
MediaSkip ==
    /\ pc = "item"
    /\ ~HasImage(Head(items))
    /\ MediaItemDone(0, 0, 1)
    /\ UNCHANGED << failures, log >>

\* dereference_media, lines 129-134: the value has no value_resource_id
MediaNoReference ==
    /\ pc = "item"
    /\ Head(items).image = "noid"
    /\ MediaItemDone(0, 1, 0)
    /\ UNCHANGED << failures, log >>

\* dereference_media, lines 139-150: the referenced item is fetched and has
\* media
MediaGetReferenced ==
    /\ pc = "item"
    /\ Head(items).image = "ref"
    /\ log' = Append(log, Request("get_item", "instance", ReferencedId, Ok))
    /\ pc' = "media"
    /\ UNCHANGED << linker, pages, failures, page, items, all_items,
                    success_count, failed_count, skipped_count, total_count,
                    silent, confirm >>

\* dereference_media, lines 139-148: the referenced item is not fetched or
\* has no media
MediaNoReferenced ==
    /\ pc = "item"
    /\ Head(items).image = "ref"
    /\ \/ /\ failures < MaxFailures
          /\ failures' = failures + 1
          /\ \E status \in NotOk :
                log' = Append(log, Request("get_item", "instance",
                                           ReferencedId, status))
       \/ /\ UNCHANGED failures
          /\ log' = Append(log, Request("get_item", "instance",
                                        ReferencedId, Ok))
    /\ MediaItemDone(0, 1, 0)

\* dereference_media, lines 154-212: the media of the referenced item is
\* fetched and gives an entry of new_media
MediaGetMedia ==
    /\ pc = "media"
    /\ log' = Append(log, Request("get_media", "instance", ReferencedId, Ok))
    /\ pc' = "fresh"
    /\ UNCHANGED << linker, pages, failures, page, items, all_items,
                    success_count, failed_count, skipped_count, total_count,
                    silent, confirm >>

\* dereference_media, lines 160-164, 176-199 and 208-210: the media is not
\* fetched or has no URL; new_media stays empty
MediaNoMedia ==
    /\ pc = "media"
    /\ \/ /\ failures < MaxFailures
          /\ failures' = failures + 1
          /\ \E status \in NotOk :
                log' = Append(log, Request("get_media", "instance",
                                           ReferencedId, status))
       \/ /\ UNCHANGED failures
          /\ log' = Append(log, Request("get_media", "instance",
                                        ReferencedId, Ok))
    /\ MediaItemDone(0, 1, 0)

\* dereference_media, lines 215-221: the item itself is fetched again
MediaGetFresh ==
    /\ pc = "fresh"
    /\ log' = Append(log, Request("get_item", "instance", Head(items).id, Ok))
    /\ pc' = "put"
    /\ UNCHANGED << linker, pages, failures, page, items, all_items,
                    success_count, failed_count, skipped_count, total_count,
                    silent, confirm >>

\* dereference_media, lines 215-218: the item is not fetched
MediaNoFresh ==
    /\ pc = "fresh"
    /\ failures < MaxFailures
    /\ failures' = failures + 1
    /\ \E status \in NotOk :
          log' = Append(log, Request("get_item", "instance", Head(items).id,
                                     status))
    /\ MediaItemDone(0, 1, 0)

\* dereference_media, line 223, and update_item, lines 368-372: the PUT is
\* answered with 200
MediaUpdateOk ==
    /\ pc = "put"
    /\ log' = Append(log, Request("put", "instance", Head(items).id, Ok))
    /\ MediaItemDone(1, 0, 0)
    /\ UNCHANGED failures

\* update_item, lines 373-379: another status or a RequestException
MediaUpdateFail ==
    /\ pc = "put"
    /\ failures < MaxFailures
    /\ failures' = failures + 1
    /\ \E status \in NotOk :
          log' = Append(log, Request("put", "instance", Head(items).id, status))
    /\ MediaItemDone(0, 1, 0)

MediaNext ==
    \/ MediaPageRetrieved
    \/ MediaPageEmpty
    \/ MediaPageFail
    \/ MediaYield
    \/ MediaConfirm
    \/ MediaSkip
    \/ MediaNoReference
    \/ MediaGetReferenced
    \/ MediaNoReferenced
    \/ MediaGetMedia
    \/ MediaNoMedia
    \/ MediaGetFresh
    \/ MediaNoFresh
    \/ MediaUpdateOk
    \/ MediaUpdateFail

MediaSpec == MediaInit /\ [][MediaNext]_vars

(***************************************************************************)
(* copy_item_name_dev_to_prod.py, main over item_id_generator: the title   *)
(* of every item of the listing on prod is replaced by its title on dev.   *)
(***************************************************************************)
\* answers of dev with status 200: the item has a title with '@value', or
\* 'dcterms:title' is missing or an empty list (lines 61-63)
Titled == "200 title"

Untitled == {"200 no title", "200 empty title"}

\* item_id_generator, lines 22-28: page k of the listing on prod; only the
\* 'o:id' of an item is read
CopyPage(k) == << ListedItem(2 * k - 1, "absent"), ListedItem(2 * k, "absent") >>

CopyListings == { [k \in 1..n |-> CopyPage(k)] : n \in 0..MaxPages }

\* the PUT is sent to the development instance
PutInstanceDev == "dev"

\* main, lines 89-93: the PUT goes to prod_url
PutInstance == "prod"

\* main is entered; the generator has not run yet
CopyInit ==
    /\ LinkerIdle
    /\ pc = "next"
    /\ pages \in CopyListings
    /\ failures = 0
    /\ page = 1
    /\ items = << >>
    /\ all_items = << >>
    /\ success_count = 0
    /\ failed_count = 0
    /\ skipped_count = 0
    /\ total_count = 0
    /\ silent = TRUE
    /\ confirm = ""
    /\ log = << >>

\* item_id_generator, lines 22-27: the page has items; items holds the ids
\* not yet yielded
CopyPageRetrieved ==
    /\ pc = "next"
    /\ items = << >>
    /\ page <= Len(pages)
    /\ items' = pages[page]
    /\ log' = Append(log, Request("page", "prod", page, Ok))
    /\ UNCHANGED << linker, pc, pages, failures, page, all_items,
                    success_count, failed_count, skipped_count, total_count,
                    silent, confirm >>

\* item_id_generator, lines 25-26: the page is empty, the loop of main ends
CopyPageEmpty ==
    /\ pc = "next"
    /\ items = << >>
    /\ page > Len(pages)
    /\ log' = Append(log, Request("page", "prod", page, Ok))
    /\ pc' = "done"
    /\ UNCHANGED << linker, pages, failures, page, items, all_items,
                    success_count, failed_count, skipped_count, total_count,
                    silent, confirm >>

\* a request raises (requests.get, requests.put) or raise_for_status does
\* (lines 23, 57, 78): nothing catches it, the program ends
CopyRaises(op, inst, arg, answers) ==
    /\ failures < MaxFailures
    /\ failures' = failures + 1
    /\ \E status \in answers : log' = Append(log, Request(op, inst, arg, status))
    /\ pc' = "crashed"
    /\ UNCHANGED << linker, pages, page, items, all_items, success_count,
                    failed_count, skipped_count, total_count, silent,
                    confirm >>

\* item_id_generator, lines 22-23
CopyPageFail ==
    /\ pc = "next"
    /\ items = << >>
    /\ CopyRaises("page", "prod", page, NotOk)

\* main, lines 56, 67, 77 and 94-97, and item_id_generator, lines 27-29: the
\* iteration of the item ends and the generator is resumed
CopyItemDone ==
    /\ items' = Tail(items)
    /\ page' = IF Tail(items) = << >> THEN page + 1 ELSE page
    /\ pc' = "next"
    /\ UNCHANGED << linker, pages, failures, all_items, success_count,
                    failed_count, skipped_count, total_count, silent,
                    confirm >>

\* main, lines 53-63: dev has the item and its title
CopyDevTitled ==
    /\ pc = "next"
    /\ items # << >>
    /\ log' = Append(log, Request("get", "dev", Head(items).id, Titled))
    /\ pc' = "prod"
    /\ UNCHANGED << linker, pages, failures, page, items, all_items,
                    success_count, failed_count, skipped_count, total_count,
                    silent, confirm >>

\* main, lines 54-56 and 61-67: the item is not on dev or has no title there
CopyDevSkipped ==
    /\ pc = "next"
    /\ items # << >>
    /\ \E answer \in {"404"} \cup Untitled :
          log' = Append(log, Request("get", "dev", Head(items).id, answer))
    /\ CopyItemDone

\* main, lines 53, 57 and 63: the request or raise_for_status raises, or the
\* first title has no '@value' (KeyError)
CopyDevRaises ==
    /\ pc = "next"
    /\ items # << >>
    /\ CopyRaises("get", "dev", Head(items).id,
                  {"500", "raised", "200 title without @value"})

\* main, lines 74-79: prod has the item
CopyProdFound ==
    /\ pc = "prod"
    /\ log' = Append(log, Request("get", "prod", Head(items).id, Ok))
    /\ pc' = "put"
    /\ UNCHANGED << linker, pages, failures, page, items, all_items,
                    success_count, failed_count, skipped_count, total_count,
                    silent, confirm >>

\* main, lines 75-77: the item is not on prod
CopyProdMissing ==
    /\ pc = "prod"
    /\ log' = Append(log, Request("get", "prod", Head(items).id, "404"))
    /\ CopyItemDone

\* main, lines 74 and 78
CopyProdRaises ==
    /\ pc = "prod"
    /\ CopyRaises("get", "prod", Head(items).id, {"500", "raised"})

\* main, lines 89-97: the PUT is answered; the status, one of (200, 201) or
\* another, is only printed
CopyPutAnswered ==
    /\ pc = "put"
    /\ \E status \in {"200", "500"} :
          log' = Append(log, Request("put", PutInstance, Head(items).id, status))
    /\ CopyItemDone

\* main, line 89: requests.put raises
CopyPutRaises ==
    /\ pc = "put"
    /\ CopyRaises("put", PutInstance, Head(items).id, {"raised"})

CopyNext ==
    \/ CopyPageRetrieved
    \/ CopyPageEmpty
    \/ CopyPageFail
    \/ CopyDevTitled
    \/ CopyDevSkipped
    \/ CopyDevRaises
    \/ CopyProdFound
    \/ CopyProdMissing
    \/ CopyProdRaises
    \/ CopyPutAnswered
    \/ CopyPutRaises

CopySpec == CopyInit /\ [][CopyNext]_vars

(***************************************************************************)
(* Properties.                                                             *)
(***************************************************************************)
\* the valid references of property p on a page, whatever was seen before
PageRefs(pg, p) ==
    ExtractPage([pcs   |-> [q \in NameSet(property_names) |-> {}],
                 seen  |-> [q \in NameSet(property_names) |-> {}],
                 stats |-> [q \in NameSet(property_names) |-> ZeroStats]],
                pg, property_names).pcs[p]

\* C1: in one run every id is dispatched to add_items_to_itemset at most once
\* per property, however many items and pages reference it, and only ids of
\* the property's seen-set are dispatched.
C1_DispatchedAtMostOnce ==
    \A p \in NameSet(property_names) : \A t \in TargetIds :
        /\ dispatched[p][t] <= 1
        /\ dispatched[p][t] = 1 => t \in processed_contributors[p]

\* C1: both pages reference 77 under rcl:artist, the stream ended, and 77
\* was dispatched once.
C1_Witness ==
    /\ pc = "done"
    /\ streamEnd = "empty"
    /\ Len(pages) = 2
    /\ "rcl:artist" \in NameSet(property_names)
    /\ 77 \in PageRefs(pages[1], "rcl:artist")
    /\ 77 \in PageRefs(pages[2], "rcl:artist")
    /\ 77 \in processed_contributors["rcl:artist"]
    /\ dispatched["rcl:artist"][77] = 1

\* the previous run streamed the source and returned its statistics
PrevReturned == prev.pc = "done" /\ prev.end \in {"empty", "error"}

\* the previous run ended on an empty page and counted no error
PrevClean == prev.pc = "done" /\ prev.end = "empty" /\ ~prev.errors

C3_NoSideEffectOnMissingTarget ==
    /\ (pageLog # << >> \/ calls # NoCalls \/ pc \in {"page", "batch", "put"})
            => probed = Len(property_names)
    /\ (ev.op = "probe" /\ ~ev.ok) =>
            /\ pc \in {"exit", "done"}
            /\ pageLog = << >>
            /\ calls = NoCalls
            /\ streamEnd = "none"
            /\ \A p \in NameSet(property_names) : stats[p] = ZeroStats

\* C3: the second target of the "all" choice does not exist.
C3_Witness ==
    /\ choice = "all"
    /\ ev.op = "probe"
    /\ ~ev.ok
    /\ probed = 1
    /\ pc = "exit"

\* the counts of property p, the running batch of p included
TotAdded(p) ==
    stats[p].added +
    (IF cur # 0 /\ property_names[cur] = p THEN success_count - already_in_set ELSE 0)

TotSkipped(p) ==
    stats[p].skipped +
    (IF cur # 0 /\ property_names[cur] = p THEN already_in_set ELSE 0)

TotErrors(p) ==
    stats[p].errors +
    (IF cur # 0 /\ property_names[cur] = p THEN error_count ELSE 0)

\* the membership list of a body is a list whose entries all have an id
WellFormed(body) ==
    /\ body.item_set.kind # "null"
    /\ \A i \in 1..Len(body.item_set.entries) : body.item_set.entries[i].has_oid

\* the membership list of a body names item set c
Lists(body, c) ==
    \E i \in 1..Len(body.item_set.entries) :
        body.item_set.entries[i] = [has_oid |-> TRUE, oid |-> c]

SpecStripSet ==
    { "o:id", "o:created", "o:modified", "o:owner", "o:resource_class",
      "o:resource_template", "thumbnail_display_urls", "o:primary_media",
      "o:media", "o:site", "@reverse", "@context", "@id", "@type" }

\* C5: the PUT payload of add_items_to_itemset has no key of the strip set.
C5_PayloadHasNoStripField ==
    pc = "put" => (DOMAIN update_data.props) \cap SpecStripSet = {}

\* the keys a write path removes from the dict d
Removed(d, payload) == (DOMAIN d.props) \ (DOMAIN payload)

\* C6: from the same fetched item every write path removes the same keys.
C6_SameStripSetOnEveryPath ==
    pc = "put" =>
        LET d == item_data IN
        /\ Removed(d, UpdateDataArtists(d)) = Removed(d, UpdateData(d).props)
        /\ Removed(d, UpdateItemSave(d)) = Removed(d, UpdateData(d).props)
        /\ Removed(d, UpdateItemDeref(d)) = Removed(d, UpdateData(d).props)
        /\ Removed(d, TitleSyncPayload(d)) = Removed(d, UpdateData(d).props)

\* s is a prefix of t
IsPrefix(s, t) == Len(s) <= Len(t) /\ SubSeq(t, 1, Len(s)) = s

\* C7: the membership list of a pending PUT is the stored list of the item
\* followed by one entry for the target item set; the store changes only by
\* that PUT, and every membership list of the store only grows at its end.
C7_MembershipOnlyAppended ==
    [][ /\ pc = "put" =>
            update_data.item_set =
                Append(store[item_id].item_set.entries,
                       [has_oid |-> TRUE,
                        oid |-> property_to_target_map[property_names[cur]]])
        /\ \A t \in TargetIds :
            /\ store'[t] # store[t] =>
                    /\ pc = "put"
                    /\ t = item_id
                    /\ store'[t].item_set.kind = "list"
                    /\ store'[t].item_set.entries = update_data.item_set
            /\ IsPrefix(store[t].item_set.entries, store'[t].item_set.entries)
      ]_vars

\* C7: item 77 had item sets 9 and 5 and was added to item set 6.
C7_Witness ==
    /\ store[77].item_set.entries = <<SetEntry(9), SetEntry(5), SetEntry(6)>>
    /\ ev = [op |-> "put", arg |-> 77, ok |-> TRUE]

\* the properties after the running one that have new contributors on the
\* page
LaterBatches ==
    { j \in (cur + 1)..Len(property_names) :
        page_contributors[property_names[j]] # {} }

\* C8: a failed GET or PUT of id t under property p adds one to the errors of
\* p and nothing to its other counts or to the other properties, writes
\* nothing, and the run goes on: with the other ids of the batch, else with
\* the next batch of the page, else with the next page.  An id counted as an
\* error is not dispatched again in the run.
C8_FailureCountsOnceAndContinues ==
    [][ \A p \in NameSet(property_names) : \A t \in TargetIds :
          /\ ( /\ pc \in {"batch", "put"}
               /\ p = property_names[cur]
               /\ calls' # calls
               /\ ev'.op \in {"get", "put"}
               /\ ev'.arg = t
               /\ ~ev'.ok )
             => ( /\ TotErrors(p)' = TotErrors(p) + 1
                  /\ TotAdded(p)' = TotAdded(p)
                  /\ TotSkipped(p)' = TotSkipped(p)
                  /\ \A q \in NameSet(property_names) \ {p} : stats'[q] = stats[q]
                  /\ store' = store
                  /\ streamEnd' = "none"
                  /\ IF item_ids \ {t} # {}
                     THEN pc' = "batch" /\ cur' = cur /\ item_ids' = item_ids \ {t}
                     ELSE IF LaterBatches # {}
                     THEN /\ pc' = "batch"
                          /\ cur' \in LaterBatches
                          /\ \A j \in LaterBatches : cur' <= j
                          /\ item_ids' = page_contributors[property_names[cur']]
                     ELSE pc' = "page" /\ page' = page + 1 )
          /\ (outcome[p][t] = "error" /\ run' = run)
             => (dispatched'[p][t] = dispatched[p][t] /\ outcome'[p][t] = "error")
      ]_vars

\* C8: the dispatch of 77 under rcl:artist failed on page 1; the other id of
\* the page and the id found on page 2 were dispatched, 77 was not dispatched
\* again although page 2 references it, and the stream ended on an empty
\* page.
C8_Witness ==
    /\ pc = "done"
    /\ streamEnd = "empty"
    /\ Len(pages) = 2
    /\ property_names = <<"rcl:artist", "rcl:author">>
    /\ 77 \in PageRefs(pages[1], "rcl:artist")
    /\ 77 \in PageRefs(pages[2], "rcl:artist")
    /\ outcome["rcl:artist"][77] = "error"
    /\ dispatched["rcl:artist"][77] = 1
    /\ stats["rcl:artist"].errors = 1
    /\ outcome["rcl:artist"][78] \in {"added", "skipped"}
    /\ 78 \notin PageRefs(pages[1], "rcl:author")
    /\ outcome["rcl:author"][78] \in {"added", "skipped"}

\* C9: no response and no body of a fetched item makes the run end with an
\* exception.
C9_NoExceptionLeavesRun == pc # "crashed"

\* C10: a failed page request ends the stream at once with the statistics
\* and the store as they are; afterwards the run requests no page, reads and
\* writes no item and changes no count.
C10_PageFailureEndsStream ==
    [][ /\ ( /\ Len(pageLog') = Len(pageLog) + 1
             /\ ev' = [op |-> "page", arg |-> page, ok |-> FALSE] )
           => ( /\ pc' = "done"
                /\ streamEnd' = "error"
                /\ pageLog' = Append(pageLog, page)
                /\ stats' = stats
                /\ store' = store
                /\ calls' = calls )
        /\ (streamEnd = "error" /\ run' = run)
           => ( /\ pc' = "done"
                /\ pageLog' = pageLog
                /\ stats' = stats
                /\ store' = store
                /\ calls' = calls )
      ]_vars

\* C10: the request of page 2 failed after page 1 had led to a successful
\* PUT; the run returned with that addition counted.
C10_Witness ==
    /\ pc = "done"
    /\ streamEnd = "error"
    /\ pageLog = <<1, 2>>
    /\ ev = [op |-> "page", arg |-> 2, ok |-> FALSE]
    /\ calls.put >= 1
    /\ \E p \in NameSet(property_names) : stats[p].added >= 1


\* C11: the first empty page ends the stream.  The step that retrieves it
\* issues no write, changes no counter and no statistics and leaves the run
\* returned; from then on the run requests no page, issues no call and keeps
\* the statistics of the preceding pages.
C11_EmptyPageEndsStream ==
    [][ /\ ( /\ Len(pageLog') = Len(pageLog) + 1
             /\ ev'.ok
             /\ page > Len(pages) )
           => /\ pc' = "done"
              /\ streamEnd' = "empty"
              /\ stats' = stats
              /\ store' = store
              /\ calls' = calls
              /\ counters' = counters
        /\ (streamEnd = "empty" /\ run' = run)
           => /\ pageLog' = pageLog
              /\ calls' = calls
              /\ store' = store
              /\ stats' = stats
              /\ pc' = "done" ]_vars

C11_Witness ==
    /\ pc = "done"
    /\ streamEnd = "empty"
    /\ pageLog = << 1, 2, 3 >>
    /\ Len(pages) = 2
    /\ \E p \in DOMAIN stats : stats[p].added >= 1
    /\ \A p \in DOMAIN stats : stats[p].errors = 0

\* every id of the seen-sets has been dispatched once and has its outcome
AllDispatched ==
    \A p \in NameSet(property_names) : \A t \in processed_contributors[p] :
        dispatched[p][t] = 1 /\ outcome[p][t] # "none"

\* C12: a page is requested only when every id discovered so far has
\* completed its dispatch, and every GET and PUT is for an id referenced, under
\* the property of the running batch, by the page requested last: page
\* requests and membership writes of different pages never interleave.
C12_PagesDoNotInterleave ==
    [][ /\ (run' = run /\ Len(pageLog') = Len(pageLog) + 1)
           => /\ pc = "page"
              /\ item_ids = {}
              /\ calls' = calls
              /\ AllDispatched
        /\ (run' = run /\ calls' # calls)
           => /\ pageLog' = pageLog
              /\ pageLog # << >>
              /\ pageLog[Len(pageLog)] \in 1..Len(pages)
              /\ cur # 0
              /\ ev'.arg \in PageRefs(pages[pageLog[Len(pageLog)]],
                                      property_names[cur]) ]_vars

\* C12: page 2 has just been requested; page 1 had new ids under both
\* properties and each of them was fetched before.
C12_Witness ==
    /\ pageLog = <<1, 2>>
    /\ ev = [op |-> "page", arg |-> 2, ok |-> TRUE]
    /\ property_names = <<"rcl:artist", "rcl:author">>
    /\ PageRefs(pages[1], "rcl:artist") = {77, 78}
    /\ PageRefs(pages[1], "rcl:author") = {77}
    /\ calls.get >= 3
    /\ calls.put >= 1

\* C13: when page k > 1 is about to be requested the coordinator holds no
\* resource body of an earlier page: neither a source item of a page nor a
\* fetched target body nor a payload.
C13_NoBodyHeldAtPageRequest ==
    (pc = "page" /\ page > 1)
        => /\ items = << >>
           /\ item_data = NoBody
           /\ update_data = NoPayload

\* the entry is a record of type 'resource:item' with a non-empty
\* value_resource_id
ValidEntry(e) ==
    /\ e.isDict
    /\ e.type = "resource:item"
    /\ e.value_resource_id \notin {NoneVal, 0}

\* the ids of the valid entries of the list values of property p on page pg
ValidIds(pg, p) ==
    UNION { { pg[i][p].entries[k].value_resource_id :
                k \in { n \in 1..Len(pg[i][p].entries) :
                            ValidEntry(pg[i][p].entries[n]) } } :
            i \in { j \in 1..Len(pg) : pg[j][p].present /\ pg[j][p].isList } }

\* C14: an entry that is not a record, is not of type 'resource:item' or has a
\* missing or empty value_resource_id contributes no id and does not stop the
\* extraction: the retrieval of a page discovers exactly the ids of the valid
\* entries of the page, wherever they stand among invalid ones, and the batch
\* script extracts exactly the valid rcl:artist ids of a page.
C14_MalformedEntriesAreSkipped ==
    [][ /\ \A k \in 1..Len(pages) :
            extract_artist_items(pages[k]) = ValidIds(pages[k], "rcl:artist")
        /\ ( /\ run' = run
             /\ Len(pageLog') = Len(pageLog) + 1
             /\ ev'.ok
             /\ page <= Len(pages) )
          => \A p \in NameSet(property_names) :
                /\ page_contributors'[p] =
                      ValidIds(pages[page], p) \ processed_contributors[p]
                /\ processed_contributors'[p] =
                      processed_contributors[p] \cup ValidIds(pages[page], p) ]_vars

\* C14: the first page has an item whose rcl:artist list holds a string, a
\* literal and an entry without id before a valid reference to 78; 78 was
\* discovered.
C14_Witness ==
    /\ pageLog = <<1>>
    /\ ev = [op |-> "page", arg |-> 1, ok |-> TRUE]
    /\ "rcl:artist" \in NameSet(property_names)
    /\ items = <<ItA, ItB>>
    /\ ItB["rcl:artist"].entries = <<Str, Lit(77), NoRef, Ref(78)>>
    /\ page_contributors["rcl:artist"] = {77, 78}

\* C15: a dispatch performs exactly one GET of its id and at most one PUT.
\* Every GET is the first one of the id under the property of the running
\* batch and comes with no PUT; every PUT directly follows the successful GET
\* of the same id, whose membership list did not name the target item set,
\* and is followed by no second PUT; no other step issues a call.
C15_OneGetAtMostOnePut ==
    [][ (run' = run /\ calls' # calls)
        => \/ /\ calls' = [calls EXCEPT !.get = @ + 1]
              /\ pc = "batch"
              /\ ev'.op = "get"
              /\ ev'.arg \in item_ids
              /\ dispatched[property_names[cur]][ev'.arg] = 0
              /\ dispatched' =
                    [dispatched EXCEPT ![property_names[cur]][ev'.arg] = 1]
              /\ store' = store
              /\ pc' = "put" => ev'.ok
           \/ /\ calls' = [calls EXCEPT !.put = @ + 1]
              /\ pc = "put"
              /\ ev'.op = "put"
              /\ ev = [op |-> "get", arg |-> ev'.arg, ok |-> TRUE]
              /\ dispatched[property_names[cur]][ev'.arg] = 1
              /\ dispatched' = dispatched
              /\ WellFormed(store[ev'.arg])
              /\ ~Lists(store[ev'.arg],
                        property_to_target_map[property_names[cur]])
              /\ pc' # "put" ]_vars

\* C15: two ids were dispatched: one was fetched and written, the other was
\* fetched only, because its list named the target item set.
C15_Witness ==
    /\ calls = [get |-> 2, put |-> 1]
    /\ \E p \in NameSet(property_names) :
          /\ dispatched[p][77] = 1
          /\ dispatched[p][78] = 1
          /\ {outcome[p][77], outcome[p][78]} = {"added", "skipped"}

\* C16: the pages requested in a run are 1, 2, ..., n in this order, each
\* once; the cursor is the number of the page requested last, or the next one
\* once that page was retrieved non-empty and its batches are finished; it
\* moves only by one and only past a page that was retrieved non-empty.
C16_PagesInOrderOncePerPage ==
    [][ /\ \A i \in 1..Len(pageLog) : pageLog[i] = i
        /\ page \in {Len(pageLog), Len(pageLog) + 1}
        /\ pc = "page" => page = Len(pageLog) + 1
        /\ run' = run
           => /\ pageLog' # pageLog
                 => pageLog' = Append(pageLog, page)
              /\ page' # page
                 => /\ page' = page + 1
                    /\ pageLog'[Len(pageLog')] = page
                    /\ page <= Len(pages)
                    /\ pages[page] # << >>
                    /\ items' = pages[page]
                    /\ streamEnd' = "none" ]_vars

\* C16: two non-empty pages and the empty third page were requested, in this
\* order, and the run returned.
C16_Witness ==
    /\ pc = "done"
    /\ pageLog = <<1, 2, 3>>
    /\ page = 3
    /\ Len(pages) = 2
    /\ calls.get >= 2

\* C17: with finitely many pages and every call answered, a run that has not
\* returned eventually returns its statistics, whatever the answers are.
C17_RunEventuallyReturns ==
    (pc \notin {"done", "exit"}) ~> (pc \in {"done", "exit"})

\* C18: an id is in the seen-set of its property before its dispatch starts
\* and no step of the run removes an id from a seen-set, whatever the outcome
\* of the dispatch; so an id whose GET or PUT failed is not dispatched again
\* when a later item or page references it.
C18_SeenBeforeDispatchAndKept ==
    [][ run' = run
        => \A p \in NameSet(property_names) :
              /\ processed_contributors[p] \subseteq processed_contributors'[p]
              /\ cur' = 0
                 \/ item_ids' \subseteq processed_contributors'[property_names[cur']]
              /\ \A t \in TargetIds :
                    /\ dispatched'[p][t] > dispatched[p][t]
                       => t \in processed_contributors[p]
                    /\ outcome[p][t] = "error"
                       => /\ dispatched'[p][t] = dispatched[p][t]
                          /\ outcome'[p][t] = "error"
                          /\ t \in processed_contributors'[p]
                          /\ t \notin page_contributors'[p]
                             \/ page_contributors' = page_contributors ]_vars

\* C18: the dispatch of 77 under rcl:artist failed on page 1; page 2, which
\* references 77 again under rcl:artist, has been retrieved and 77, still in
\* the seen-set, is not among its new ids.
C18_Witness ==
    /\ pageLog = <<1, 2>>
    /\ ev = [op |-> "page", arg |-> 2, ok |-> TRUE]
    /\ Len(pages) = 2
    /\ "rcl:artist" \in NameSet(property_names)
    /\ 77 \in PageRefs(pages[2], "rcl:artist")
    /\ outcome["rcl:artist"][77] = "error"
    /\ 77 \in processed_contributors["rcl:artist"]
    /\ 77 \notin page_contributors["rcl:artist"]
    /\ dispatched["rcl:artist"][77] = 1

\* C19: the membership test and the payload of a dispatch are built from the
\* item as it is stored when the dispatch fetches it.  A successful GET of a
\* well-formed item leads to a PUT exactly when the stored list does not name
\* the target item set; the payload is then the stored list with the target
\* appended and the stored values of the kept keys; and every membership the
\* run added to the item before, under another property, is in the stored
\* list the dispatch decides on: it is skipped for the same item set and kept
\* in the payload for another one.
C19_DispatchUsesFetchedState ==
    [][ \A t \in TargetIds :
          ( /\ run' = run
            /\ calls' = [calls EXCEPT !.get = @ + 1]
            /\ ev' = [op |-> "get", arg |-> t, ok |-> TRUE]
            /\ WellFormed(store[t]) )
          => /\ pc' = "put"
                <=> ~Lists(store[t], property_to_target_map[property_names[cur]])
             /\ pc' = "put"
                => /\ update_data'.item_set =
                        Append(store[t].item_set.entries,
                               [has_oid |-> TRUE,
                                oid |-> property_to_target_map[property_names[cur]]])
                   /\ \A k \in DOMAIN update_data'.props :
                        /\ k \in DOMAIN store[t].props
                        /\ update_data'.props[k] = store[t].props[k]
             /\ \A q \in NameSet(property_names) :
                  outcome[q][t] = "added"
                  => /\ Lists(store[t], property_to_target_map[q])
                     /\ pc' = "put"
                        => \E i \in 1..Len(update_data'.item_set) :
                              update_data'.item_set[i] =
                                [has_oid |-> TRUE, oid |-> property_to_target_map[q]]
                     /\ property_to_target_map[q] =
                            property_to_target_map[property_names[cur]]
                        => outcome'[property_names[cur]][t] = "skipped" ]_vars

\* C19: item 77 was dispatched under rcl:artist and under rcl:author, which
\* have different targets; both dispatches added their item set and the
\* stored list holds the first membership before the second.
C19_Witness ==
    /\ property_names = <<"rcl:artist", "rcl:author">>
    /\ property_to_target_map["rcl:artist"] # property_to_target_map["rcl:author"]
    /\ outcome["rcl:artist"][77] = "added"
    /\ outcome["rcl:author"][77] = "added"
    /\ ev = [op |-> "put", arg |-> 77, ok |-> TRUE]
    /\ \E i, j \in 1..Len(store[77].item_set.entries) :
          /\ i < j
          /\ store[77].item_set.entries[i] =
                [has_oid |-> TRUE, oid |-> property_to_target_map["rcl:artist"]]
          /\ store[77].item_set.entries[j] =
                [has_oid |-> TRUE, oid |-> property_to_target_map["rcl:author"]]

\* C19: both properties have the same target; the dispatch of 77 under
\* rcl:artist added it and the dispatch under rcl:author found it present.
C19_WitnessSkipped ==
    /\ property_names = <<"rcl:artist", "rcl:author">>
    /\ property_to_target_map["rcl:artist"] = property_to_target_map["rcl:author"]
    /\ outcome["rcl:artist"][77] = "added"
    /\ outcome["rcl:author"][77] = "skipped"

\* C20: at every point of a run and for every property, found is the number
\* of ids in the property's seen-set: it counts the ids newly discovered by
\* the deduplication, whatever their dispatch finds or does.
C20_FoundIsSizeOfSeenSet ==
    \A p \in NameSet(property_names) :
        stats[p].found = Cardinality(processed_contributors[p])

\* C20: two ids were found under rcl:author although the page references one
\* of them twice, and one of the two was already in the target item set.
C20_Witness ==
    /\ "rcl:author" \in NameSet(property_names)
    /\ processed_contributors["rcl:author"] = {77, 78}
    /\ stats["rcl:author"].found = 2
    /\ stats["rcl:author"].skipped >= 1
    /\ \E k \in 1..Len(pages) : pages[k] = <<ItC, ItD, ItA>>

\* C21: a given source item set is verified by the first request of the run,
\* before any target is verified and any page requested; when it is not found
\* the program exits and requests no page, reads and writes no item; and all
\* targets are verified before the first page request.
C21_ProbesPrecedeStreaming ==
    [][ run' = run
        => /\ pc = "source"
              => /\ pageLog = << >> /\ calls = NoCalls /\ probed = 0
                 /\ pageLog' = << >> /\ calls' = NoCalls /\ probed' = 0
                 /\ store' = store
                 /\ source_itemset_id # NoneVal
                    => /\ ev'.op = "source"
                       /\ ev'.arg = source_itemset_id
                       /\ ~ev'.ok => pc' = "exit"
           /\ pc = "exit"
              => /\ pc' = "exit"
                 /\ pageLog' = pageLog
                 /\ calls' = calls
                 /\ store' = store
           /\ pc = "probe"
              => pageLog = << >> /\ pageLog' = << >> /\ calls' = NoCalls
           /\ pageLog' # pageLog
              => pc = "page" /\ probed = Len(property_names) ]_vars

\* C21: the given source item set was not found; the program exited although
\* the source has pages, and nothing was requested or written.
C21_Witness ==
    /\ pc = "exit"
    /\ source_itemset_id = SourceSet
    /\ ev = [op |-> "source", arg |-> SourceSet, ok |-> FALSE]
    /\ pages # << >>
    /\ pageLog = << >>
    /\ calls = NoCalls
    /\ probed = 0

\* the pages of the source that the run has retrieved
RetrievedPages ==
    { k \in 1..Len(pageLog) :
        k <= Len(pages) /\ ~(k = Len(pageLog) /\ streamEnd = "error") }

\* C22: the ids dispatched for a field depend on the values of that field
\* only: when the run has ended, and did not end in a dispatch of field f
\* itself, every valid id that a retrieved page references under f has been
\* dispatched once under f, whatever the pages hold under the other fields;
\* and a run starts with empty seen-sets.
C22_FieldsDoNotInterfere ==
    /\ pc \in {"done", "exit", "crashed"}
       => \A f \in NameSet(property_names) :
             \/ pc = "crashed" /\ property_names[cur] = f
             \/ \A k \in RetrievedPages :
                   \A t \in ValidIds(pages[k], f) : dispatched[f][t] = 1
    /\ pc \in {"source", "probe"}
       => \A f \in NameSet(property_names) :
             /\ processed_contributors[f] = {}
             /\ \A t \in TargetIds : dispatched[f][t] = 0

\* C23: the dispatches of field f are against the item set mapped to f and no
\* other.  The only writes of a run are PUTs of items that are in the
\* seen-set of the field of the running batch and were referenced under it by
\* the current page; such a PUT adds the item set mapped to that field and
\* nothing else to the memberships of the item; no other item changes and the
\* source pages are never written.
C23_OnlySeenTargetsAreWritten ==
    [][ run' = run
        => /\ pages' = pages
           /\ \A t \in TargetIds :
                store'[t] # store[t]
                => /\ ev' = [op |-> "put", arg |-> t, ok |-> TRUE]
                   /\ cur # 0
                   /\ t \in processed_contributors[property_names[cur]]
                   /\ t \in page_contributors[property_names[cur]]
                   /\ store'[t].item_set.entries =
                        Append(store[t].item_set.entries,
                               [has_oid |-> TRUE,
                                oid |-> property_to_target_map[property_names[cur]]])
                   /\ \A u \in TargetIds \ {t} : store'[u] = store[u]
           /\ \A p \in NameSet(property_names) : \A t \in TargetIds :
                outcome'[p][t] = "added" /\ outcome[p][t] # "added"
                => /\ p = property_names[cur]
                   /\ Lists(store'[t], property_to_target_map[p])
                   /\ \A c \in Collections \cup {OtherSet} :
                        Lists(store'[t], c) /\ ~Lists(store[t], c)
                        => c = property_to_target_map[p] ]_vars

\* C23: the two fields have different targets; 78 was seen under rcl:author
\* only and was added to the target of rcl:author and not to the target of
\* rcl:artist.
C23_Witness ==
    /\ property_names = <<"rcl:artist", "rcl:author">>
    /\ property_to_target_map["rcl:artist"] # property_to_target_map["rcl:author"]
    /\ 78 \notin processed_contributors["rcl:artist"]
    /\ outcome["rcl:author"][78] = "added"
    /\ Lists(store[78], property_to_target_map["rcl:author"])
    /\ ~Lists(store[78], property_to_target_map["rcl:artist"])
    /\ processed_contributors["rcl:artist"] # {}

\* the page with every present value that is not a list taken away
NonListsAbsent(pg) ==
    [i \in 1..Len(pg) |->
        [p \in DOMAIN pg[i] |->
            IF pg[i][p].present /\ ~pg[i][p].isList THEN Absent ELSE pg[i][p]]]

\* C24: a value that is present but not a list counts as no reference: the
\* retrieval of a page discovers, records and counts exactly what it would if
\* every such value were absent, for every field and every item of the page,
\* and it raises no error count; the same holds for the extraction of the
\* batch script.
C24_NonListIsNoReference ==
    [][ /\ \A k \in 1..Len(pages) :
            extract_artist_items(pages[k]) =
                extract_artist_items(NonListsAbsent(pages[k]))
        /\ ( /\ run' = run
             /\ Len(pageLog') = Len(pageLog) + 1
             /\ ev'.ok
             /\ page <= Len(pages) )
          => LET X == ExtractPage(
                        [pcs   |-> [q \in NameSet(property_names) |-> {}],
                         seen  |-> processed_contributors,
                         stats |-> stats],
                        NonListsAbsent(pages[page]), property_names)
             IN  /\ page_contributors' = X.pcs
                 /\ processed_contributors' = X.seen
                 /\ stats' = X.stats
                 /\ \A p \in NameSet(property_names) :
                        stats'[p].errors = stats[p].errors
                 /\ error_count' = 0 ]_vars

\* C24: the retrieved page starts with an item whose rcl:artist is not a list;
\* its rcl:author gave 78, a later item's rcl:artist gave 77, and no error is
\* counted.
C24_Witness ==
    /\ pageLog = <<1>>
    /\ ev = [op |-> "page", arg |-> 1, ok |-> TRUE]
    /\ property_names = <<"rcl:artist", "rcl:author">>
    /\ items = <<ItC, ItD, ItA>>
    /\ items[1]["rcl:artist"] = NonList
    /\ page_contributors["rcl:artist"] = {77}
    /\ page_contributors["rcl:author"] = {78}
    /\ \A p \in NameSet(property_names) : stats[p].errors = 0

\* the ids of property p whose dispatch ended with outcome o
WithOutcome(p, o) == { t \in TargetIds : outcome[p][t] = o }

\* C25: when the run has returned and whenever a page is completed, for every
\* field found = added + skipped + errors, and every id of the seen-set has
\* exactly one of the three outcomes, each counted in its own counter.
C25_FoundIsSumOfOutcomes ==
    pc \in {"page", "done"}
    => \A p \in NameSet(property_names) :
          /\ stats[p].found = stats[p].added + stats[p].skipped + stats[p].errors
          /\ \A t \in processed_contributors[p] :
                outcome[p][t] \in {"added", "skipped", "error"}
          /\ stats[p].added = Cardinality(WithOutcome(p, "added"))
          /\ stats[p].skipped = Cardinality(WithOutcome(p, "skipped"))
          /\ stats[p].errors = Cardinality(WithOutcome(p, "error"))

\* C25: the run returned after the empty page with one id added, one skipped
\* and one failed.
C25_Witness ==
    /\ pc = "done"
    /\ streamEnd = "empty"
    /\ \E p, q \in NameSet(property_names) :
          /\ stats[p].found = 2
          /\ stats[p].added + stats[p].skipped = 2
          /\ stats[p].skipped = 1
          /\ stats[q].errors = 1

\* C26: after a streaming run in which no request failed, every valid id that
\* any item of any source page references under field f is a member of the
\* item set mapped to f.
C26_EveryReferencedTargetIsMember ==
    ( /\ pc \in {"done", "crashed"}
      /\ probed = Len(property_names)
      /\ failures = 0 )
    => \A f \in NameSet(property_names) : \A k \in 1..Len(pages) :
          \A t \in ValidIds(pages[k], f) :
              Lists(store[t], property_to_target_map[f])

\* C27: in one run at most one PUT succeeds per pair of an item and a target
\* item set, also when several fields have the same target and the item is
\* dispatched under each: a successful PUT is only for a pair that no earlier
\* dispatch of the run added, and of the fields with one target at most one
\* ends with the item added.
C27_OneSuccessfulPutPerPair ==
    [][ run' = run
        => \A t \in TargetIds : \A c \in Collections :
              /\ ( /\ ev' = [op |-> "put", arg |-> t, ok |-> TRUE]
                   /\ calls'.put = calls.put + 1
                   /\ property_to_target_map[property_names[cur]] = c )
                 => /\ ~Lists(store[t], c)
                    /\ \A q \in NameSet(property_names) :
                          property_to_target_map[q] = c => outcome[q][t] # "added"
              /\ Cardinality({ q \in NameSet(property_names) :
                                  /\ property_to_target_map[q] = c
                                  /\ outcome'[q][t] = "added" }) <= 1 ]_vars

\* C27: both fields have the same target and 77 was dispatched under both:
\* one PUT was sent for it, by the first dispatch.
C27_Witness ==
    /\ property_names = <<"rcl:artist", "rcl:author">>
    /\ property_to_target_map["rcl:artist"] = property_to_target_map["rcl:author"]
    /\ dispatched["rcl:artist"][77] = 1
    /\ dispatched["rcl:author"][77] = 1
    /\ outcome["rcl:artist"][77] = "added"
    /\ outcome["rcl:author"][77] = "skipped"
    /\ ev = [op |-> "get", arg |-> 77, ok |-> TRUE]

\* C28: the payload of the PUT differs from the fetched item only by removed
\* keys of the strip list and by the membership list: every key it has is a
\* key of the fetched item with the fetched value, every key it lacks is on the
\* strip list, every fetched key off the strip list is in it, and its
\* membership list is the fetched one with the target appended.  The payload
\* the batch script builds from the same item has the same keys and values.
C28_PayloadKeepsOtherFields ==
    pc = "put"
    => /\ \A k \in DOMAIN update_data.props :
             /\ k \in DOMAIN store[item_id].props
             /\ update_data.props[k] = store[item_id].props[k]
       /\ (DOMAIN store[item_id].props) \ (DOMAIN update_data.props)
             \subseteq SpecStripSet
       /\ (DOMAIN store[item_id].props) \ SpecStripSet
             \subseteq DOMAIN update_data.props
       /\ update_data.item_set =
             Append(store[item_id].item_set.entries,
                    [has_oid |-> TRUE,
                     oid |-> property_to_target_map[property_names[cur]]])
       /\ UpdateDataArtists(item_data) = update_data.props

\* C28: a complete item with two memberships was fetched; the payload has its
\* titles, class and template and three memberships.
C28_Witness ==
    /\ pc = "put"
    /\ DOMAIN store[item_id].props = FullKeys
    /\ { "o:title", "dcterms:title", "o:resource_class", "o:resource_template" }
          \subseteq DOMAIN update_data.props
    /\ Len(store[item_id].item_set.entries) = 2
    /\ Len(update_data.item_set) = 3

\* the valid rcl:artist ids that the first n pages of the source reference
ArtistIdsUpTo(n) ==
    UNION { ValidIds(pages[k], "rcl:artist") : k \in 1..n }

\* the first page of the source that references t under rcl:artist
FirstPageOf(t) ==
    CHOOSE k \in 1..Len(pages) :
        /\ t \in ValidIds(pages[k], "rcl:artist")
        /\ \A j \in 1..(k - 1) : t \notin ValidIds(pages[j], "rcl:artist")

\* C29: for the field rcl:artist and the same answers to the page requests,
\* the batch script dispatches the ids the streaming script dispatches, each
\* once.  The streaming script dispatches the ids of the pages it retrieves
\* and retrieves no page after the one whose dispatch ends the run; so when
\* the batch script has returned it has fetched exactly the ids of the
\* retrieved pages, and when the fetched body of an id ended it, it has
\* fetched no id that is first referenced on a later page than that id.
C29_BatchDispatchesWhatStreamingDoes ==
    /\ \A t \in TargetIds : dispatched["rcl:artist"][t] <= 1
    /\ (pc = "done" /\ streamEnd # "none")
       => \A t \in TargetIds :
             dispatched["rcl:artist"][t] = 1
             <=> t \in ArtistIdsUpTo(Cardinality(RetrievedPages))
    /\ pc = "crashed"
       => \A t \in TargetIds :
             dispatched["rcl:artist"][t] = 1
             => t \in ArtistIdsUpTo(FirstPageOf(ev.arg))

\* C30: in the batch script no item is fetched or written before the page
\* retrieval has ended; when a page request fails, add_items_to_itemset is
\* entered with exactly the ids extracted from the pages retrieved before it
\* (with none, the script ends at once), and when the script has returned
\* each of the ids of the retrieved pages was dispatched; when no page was
\* retrieved or no id was extracted, no GET and no PUT is ever sent.
C30_NoWriteBeforeRetrievalEnds ==
    [][ /\ calls' # calls => streamEnd # "none"
        /\ (streamEnd = "none" /\ streamEnd' = "error")
           => /\ item_ids' = ArtistIdsUpTo(page - 1)
              /\ pc' = IF ArtistIdsUpTo(page - 1) = {} THEN "done" ELSE "batch"
        /\ (pc' = "done" /\ streamEnd' # "none")
           => \A t \in ArtistIdsUpTo(Cardinality(RetrievedPages')) :
                 dispatched'["rcl:artist"][t] = 1
        /\ (streamEnd' # "none"
            /\ ArtistIdsUpTo(Cardinality(RetrievedPages')) = {})
           => /\ calls' = NoCalls
              /\ pc' = "done"
      ]_vars

\* the request of page 2 has failed and the artist of page 1 was added to the
\* target item set afterwards
C30_Witness ==
    /\ streamEnd = "error"
    /\ pageLog = <<1, 2>>
    /\ pc = "done"
    /\ calls.put >= 1
    /\ \E t \in ArtistIdsUpTo(1) : outcome["rcl:artist"][t] = "added"

\* the number of items on the pages 1..n of the listing
RECURSIVE ItemsOnPages(_)
ItemsOnPages(n) == IF n = 0 THEN 0 ELSE Len(pages[n]) + ItemsOnPages(n - 1)

\* the positions of the log that hold a request of the given kind
Logged(op) == { k \in 1..Len(log) : log[k].op = op }

\* a page request was answered by another status than 200 or raised
PageRequestFailed == \E k \in Logged("page") : log[k].status # Ok

\* the number of items on the pages that were answered with items
ItemsRetrieved ==
    ItemsOnPages(Cardinality({ k \in Logged("page") :
                                 log[k].status = Ok /\ log[k].arg <= Len(pages) }))

\* C31 as stated: when process_item_set of SaveItemUnchanged.py has returned,
\* a failed page request means no PUT and success = failed = 0, and in every
\* other case success + failed is the number of items retrieved.
C31_AllOrNothing ==
    pc = "done"
    => IF PageRequestFailed
       THEN /\ Logged("put") = {}
            /\ success_count = 0
            /\ failed_count = 0
       ELSE success_count + failed_count = ItemsRetrieved

\* C31 amended: get_item_set_items is all-or-nothing: after a page request
\* that failed nothing of the retrieved pages is left, no PUT is ever sent
\* and success = failed = 0; when no page request failed and
\* process_item_set has returned, success + failed is the number of items
\* retrieved and each had one PUT, unless the user declined at the prompt of
\* a call that is not silent: then no PUT was sent and success = failed = 0.
C31_AllOrNothingUnlessDeclined ==
    /\ PageRequestFailed
       => /\ pc = "done"
          /\ items = << >>
          /\ all_items = << >>
          /\ Logged("put") = {}
          /\ success_count = 0
          /\ failed_count = 0
    /\ (pc = "done" /\ ~PageRequestFailed)
       => IF confirm \in {"y", "yes"} \/ ItemsRetrieved = 0
          THEN /\ success_count + failed_count = ItemsRetrieved
               /\ Cardinality(Logged("put")) = ItemsRetrieved
          ELSE /\ ~silent
               /\ Logged("put") = {}
               /\ success_count = 0
               /\ failed_count = 0

\* the request of page 2 failed after page 1 had been retrieved with its
\* items, and process_item_set has returned
C31_Witness ==
    /\ pc = "done"
    /\ Len(log) = 2
    /\ log[1].status = Ok
    /\ log[2].status # Ok
    /\ Len(pages) >= 1
    /\ success_count + failed_count = 0

\* the number of items the generator has yielded: the items of the pages
\* answered with items, less those of the last page not yet yielded
ItemsConsumed == ItemsRetrieved - Len(items)

\* C32: in process_items of dereferenceMedia.py, when the user has not
\* declined, success + failed + skipped is the number of items consumed from
\* the generator whenever an item is completed and when the function has
\* returned; an item without rcl:image is skipped without any request; and
\* when the user declines at the first item, no PUT was sent, the three
\* counts are 0 and the function has returned.
C32_CountsCoverConsumedItems ==
    [][ /\ (pc' \in {"next", "done"} /\ confirm' # "n")
           => /\ total_count' = ItemsConsumed'
              /\ success_count' + failed_count' + skipped_count' = ItemsConsumed'
        /\ (pc = "item" /\ Head(items).image \in {"absent", "empty"})
           => /\ log' = log
              /\ skipped_count' = skipped_count + 1
              /\ success_count' = success_count
              /\ failed_count' = failed_count
        /\ confirm' = "n"
           => /\ pc' = "done"
              /\ total_count' = 1
              /\ Logged("put")' = {}
              /\ Logged("get_item")' = {}
              /\ success_count' = 0
              /\ failed_count' = 0
              /\ skipped_count' = 0
      ]_vars

\* a confirmed run over two pages has returned: one item got its media, one
\* had a value without id, two had no rcl:image
C32_Witness ==
    /\ pc = "done"
    /\ confirm \in {"y", "yes"}
    /\ total_count = 4
    /\ success_count = 1
    /\ failed_count = 1
    /\ skipped_count = 2
    /\ Cardinality(Logged("put")) = 1

\* the user has declined at the first item
C32_WitnessDeclined ==
    /\ pc = "done"
    /\ confirm = "n"
    /\ total_count = 1

\* the ids of the items of the listing
ListedIds ==
    UNION { { pages[p][i].id : i \in 1..Len(pages[p]) } : p \in 1..Len(pages) }

\* the positions of the log at which id was found missing on dev, without
\* title on dev or missing on prod
SkipAnswers(id) ==
    { k \in Logged("get") :
        /\ log[k].arg = id
        /\ \/ log[k].inst = "dev" /\ log[k].status \in {"404"} \cup Untitled
           \/ log[k].inst = "prod" /\ log[k].status = "404" }

\* C33: copy_item_name_dev_to_prod.py sends at most one PUT per item, every
\* PUT goes to prod, directly after dev has answered with the titled item
\* and prod with the item; an item that is missing on dev, has no title on
\* dev or is missing on prod gets no PUT: the answer ends its iteration, the
\* loop goes on with the next item, and when the program has ended on the
\* empty page every item of the listing has been asked for on dev.
C33_OnePutToProdOnly ==
    [][ /\ \A k \in Logged("put")' :
              /\ log'[k].inst = "prod"
              /\ k > 2
              /\ log'[k - 2] = Request("get", "dev", log'[k].arg, Titled)
              /\ log'[k - 1] = Request("get", "prod", log'[k].arg, Ok)
        /\ \A id \in ListedIds :
              /\ Cardinality({ k \in Logged("put")' : log'[k].arg = id }) <= 1
              /\ SkipAnswers(id)' # {}
                 => { k \in Logged("put")' : log'[k].arg = id } = {}
              /\ (SkipAnswers(id)' # SkipAnswers(id))
                 => /\ id = Head(items).id
                    /\ items' = Tail(items)
                    /\ pc' = "next"
        /\ pc' = "done"
           => \A id \in ListedIds :
                 \E k \in Logged("get")' :
                    log'[k].inst = "dev" /\ log'[k].arg = id
      ]_vars

\* the first item is missing on dev, the second has no title on dev, the
\* third is missing on prod, and the fourth has got its PUT
C33_Witness ==
    /\ pc = "done"
    /\ Len(pages) = 2
    /\ \E k \in SkipAnswers(1) : log[k].inst = "dev" /\ log[k].status = "404"
    /\ \E k \in SkipAnswers(2) : log[k].status \in Untitled
    /\ \E k \in SkipAnswers(3) : log[k].inst = "prod"
    /\ \E k \in Logged("put") : log[k].arg = 4 /\ log[k].inst = "prod"

====
